---- MODULE Spec2Model ----
(***************************************************************************)
(* clawphone: the voice turn registry (lib/voice-state.mjs), the counting  *)
(* semaphore (lib/utils.mjs), the agent gateway openclawReply              *)
(* (lib/agent.mjs), the /voice, /speech, /speech-wait and /sms handlers    *)
(* (lib/http-server.mjs) with readBody and the webhook signature check,    *)
(* the SMS handler (lib/sms.mjs), waitForVoiceDrain, the sliding-window    *)
(* rate limiter of spec.md 4.2 and the poll counter of /speech-wait.       *)
(*                                                                         *)
(* Texts are sequences of one-character strings, so that trimming and      *)
(* toSayableText are computed character by character.                      *)
(***************************************************************************)
EXTENDS Integers, Sequences, FiniteSets, TLC

\* ------------------------------------------------------------------ bounds
\* Number of turn keys (utterances) that may be created in one behaviour.
MaxTurns == 3
\* Turns created through POST /speech in one behaviour of the server.
MaxSpeech == 2
\* Number of direct openclawReply invocations in AgentSpec.
MaxCalls == 3
\* The clock advances at most this many times.
MaxTicks == 1
\* Milliseconds per clock step.
TickMs == 400000
\* Largest semaphore capacity tried.
MaxCap == 2

VARIABLES
    pending,        \* voice-state.mjs: Map key -> PendingTurn
    latestByCall,   \* voice-state.mjs: Map callSid -> key
    now,            \* Date.now(), in ms
    nextId,         \* the next fresh random token (crypto.randomUUID)
    lastCreated,    \* history: callSid -> the key most recently created for it
    lastCall,       \* history: the registry operation executed last
    cap,            \* config.mjs:58 OPENCLAW_MAX_CONCURRENT, the semaphore's max
    apiMode,        \* TRUE: plugin path (api given), FALSE: standalone path
    active,         \* utils.mjs:73 the semaphore's counter
    queue,          \* utils.mjs:74 the semaphore's wait queue (resolvers)
    call,           \* the openclawReply invocations: token ->
                    \*   [pc, key, result, waited]; waited records that the
                    \*   call's acquire() was queued; result.acquired that the
                    \*   slot had been obtained when the call settled
    completed,      \* history: token -> replies the /speech task gave completeTurn
    delivered,      \* history: token -> texts a /speech-wait poll delivered
    sms,            \* the handleIncomingSms invocations (sms.mjs): number ->
                    \*   their progress, result and outbound messages
    drain,          \* the waitForVoiceDrain call (voice-state.mjs:129-138)
    rl,             \* the rate limiter: its capacity, its window, the
                    \*   timestamps recorded per key, and the checks made
    http,           \* history: the last response of the /voice and /sms
                    \*   handlers, of a poll and of a request refused
    body,           \* the readBody call of the request being received
                    \*   (utils.mjs:45-67)
    auth,           \* the server's TWILIO_AUTH_TOKEN and PUBLIC_BASE_URL and
                    \*   the last call of checkSignature
    discord         \* the notifier discordLog (agent.mjs:16-17, :65-93):
                    \*   whether DISCORD_LOG_CHANNEL_ID is set, the counter
                    \*   discordInFlight, and its calls: those running
                    \*   (run() or sendMessageDiscord has not settled) and
                    \*   those dropped, resolved and rejected

regVars == <<pending, latestByCall, now, nextId, lastCreated, lastCall>>
semVars == <<active, queue>>
confVars == <<cap, apiMode>>
histVars == <<completed, delivered>>
reqVars == <<body, auth, discord>>
extVars == <<sms, drain, rl, http, body, auth, discord>>
coreVars == <<pending, latestByCall, now, nextId, lastCreated, lastCall,
              cap, apiMode, active, queue, call, completed, delivered>>
vars == <<pending, latestByCall, now, nextId, lastCreated, lastCall,
          cap, apiMode, active, queue, call, completed, delivered, sms,
          drain, rl, http, body, auth, discord>>

\* --------------------------------------------------------------- constants
None == [none |-> TRUE]

\* form.CallSid values; "" stands for a request without CallSid.
FormCallSids == {"", "CA1"}
\* http-server.mjs:129  const callSid = form.CallSid || "nocallsid"
NormCallSid(c) == IF c = "" THEN "nocallsid" ELSE c
CallSids == {NormCallSid(c) : c \in FormCallSids}

TurnIds == 1..MaxTurns
\* http-server.mjs:143  key = `${callSid}:${turnId}`
MakeKey(callSid, turnId) == [callSid |-> callSid, turnId |-> turnId]
Keys == {MakeKey(c, i) : c \in CallSids, i \in TurnIds}

\* ----------------------------------------------------------------- Map ops
MapDelete(m, k) == [x \in DOMAIN m \ {k} |-> m[x]]
MapSet(m, k, v) == [x \in DOMAIN m \cup {k} |-> IF x = k THEN v ELSE m[x]]
MapHas(m, k) == k \in DOMAIN m
\* ------------------------------------------------------------------- texts
\* http-server.mjs:173, :205, :227 and voice-state.mjs:77
OkayText == <<"O", "k", "a", "y", ".">>
\* http-server.mjs:160
DidNotCatchText == <<"I", " ", "d", "i", "d", " ", "n", "o", "t", " ", "c", "a", "t", "c", "h", " ", "t", "h", "a", "t", ".">>
\* http-server.mjs:163; the element "U+2014" is the em dash (one character).
ApologyText == <<"S", "o", "r", "r", "y", " ", "U+2014", " ", "I", " ", "h", "i", "t", " ", "a", "n", " ", "e", "r", "r", "o", "r", " ", "g", "e", "n", "e", "r", "a", "t", "i", "n", "g", " ", "a", " ", "r", "e", "p", "l", "y", ".">>

\* The characters matched by \s that the modelled texts use.
Whitespace == {" ", "\t", "\n"}
\* utils.mjs:36, the character class of the first replace; "U+0060" is the
\* backquote (one character).
MarkdownChars == {"U+0060", "*", "_", ">", "#", "[", "]"}

RECURSIVE TrimStart(_)
TrimStart(s) ==
    IF s # <<>> /\ Head(s) \in Whitespace THEN TrimStart(Tail(s)) ELSE s

RECURSIVE TrimEnd(_)
TrimEnd(s) ==
    IF s # <<>> /\ s[Len(s)] \in Whitespace
    THEN TrimEnd(SubSeq(s, 1, Len(s) - 1))
    ELSE s

\* String.prototype.trim
Trim(s) == TrimEnd(TrimStart(s))

NotMarkdown(c) == c \notin MarkdownChars

\* .replace(/\s+/g, " "): every maximal run of whitespace becomes one space.
RECURSIVE CollapseWhitespace(_)
CollapseWhitespace(s) ==
    IF s = <<>> THEN <<>>
    ELSE IF Head(s) \in Whitespace
         THEN <<" ">> \o CollapseWhitespace(TrimStart(s))
         ELSE <<Head(s)>> \o CollapseWhitespace(Tail(s))

\* .slice(0, maxLength)
Slice0(s, maxLength) ==
    IF Len(s) <= maxLength THEN s ELSE SubSeq(s, 1, maxLength)

\* config.mjs:77
MAX_SAYABLE_LENGTH == 600

\* utils.mjs:34-40
toSayableText(input, maxLength) ==
    Slice0(Trim(CollapseWhitespace(SelectSeq(input, NotMarkdown))), maxLength)

\* ------------------------------------------------------- the turn registry
\* The two maps of voice-state.mjs, passed around as one value.
Registry == [pending |-> pending, latestByCall |-> latestByCall]

\* A new PendingTurn (voice-state.mjs:43).
NewTurn(callSid, from, said, t) ==
    [callSid |-> callSid, from |-> from, said |-> said,
     done |-> FALSE, reply |-> <<>>, createdAt |-> t]

\* Mutant: the previous turn of the call is not cancelled.
createPendingTurn_NoCancel(reg, key, callSid, from, said, t) ==
    [pending |-> MapSet(reg.pending, key, NewTurn(callSid, from, said, t)),
     latestByCall |-> MapSet(reg.latestByCall, callSid, key)]

\* voice-state.mjs:36-45
createPendingTurn(reg, key, callSid, from, said, t) ==
    LET prevKey == IF MapHas(reg.latestByCall, callSid)
                   THEN reg.latestByCall[callSid] ELSE None
        kept == IF prevKey # None
                THEN MapDelete(reg.pending, prevKey) ELSE reg.pending
    IN [pending |-> MapSet(kept, key, NewTurn(callSid, from, said, t)),
        latestByCall |-> MapSet(reg.latestByCall, callSid, key)]

\* voice-state.mjs:53-55; None stands for undefined.
getPendingTurn(reg, key) ==
    IF MapHas(reg.pending, key) THEN reg.pending[key] ELSE None

\* Mutant: tests that the call has a latest turn, not that it is this key.
isLatestTurn_AnyKey(reg, key, callSid) == MapHas(reg.latestByCall, callSid)

\* voice-state.mjs:64-66
isLatestTurn(reg, key, callSid) ==
    MapHas(reg.latestByCall, callSid) /\ reg.latestByCall[callSid] = key

\* Mutant: the completion is stored without looking the key up first.
completeTurn_NoLookup(reg, key, reply) ==
    [reg EXCEPT !.pending =
        MapSet(@, key,
               IF MapHas(reg.pending, key)
               THEN [reg.pending[key] EXCEPT
                        !.reply = IF reply # <<>> THEN reply ELSE OkayText,
                        !.done = TRUE]
               ELSE [callSid |-> key.callSid, from |-> "", said |-> <<>>,
                     done |-> TRUE,
                     reply |-> IF reply # <<>> THEN reply ELSE OkayText,
                     createdAt |-> 0])]

\* Mutant: a second completion reopens the turn.
completeTurn_Reopens(reg, key, reply) ==
    IF MapHas(reg.pending, key)
    THEN [reg EXCEPT !.pending =
            MapSet(@, key,
                   [reg.pending[key] EXCEPT
                        !.reply = IF reply # <<>> THEN reply ELSE OkayText,
                        !.done = ~reg.pending[key].done])]
    ELSE reg

\* Mutant: the reply is stored as given, empty or not.
completeTurn_KeepsEmpty(reg, key, reply) ==
    IF MapHas(reg.pending, key)
    THEN [reg EXCEPT !.pending =
            MapSet(@, key, [reg.pending[key] EXCEPT !.reply = reply, !.done = TRUE])]
    ELSE reg

\* voice-state.mjs:74-81
completeTurn(reg, key, reply) ==
    IF MapHas(reg.pending, key)
    THEN [reg EXCEPT !.pending =
            MapSet(@, key,
                   [reg.pending[key] EXCEPT
                        !.reply = IF reply # <<>> THEN reply ELSE OkayText,
                        !.done = TRUE])]
    ELSE reg

\* Mutant: the latest pointer is left behind.
deleteTurn_KeepPointer(reg, key) ==
    [reg EXCEPT !.pending = MapDelete(@, key)]

\* Mutant: the latest pointers of all calls are removed with the turn.
deleteTurn_AllPointers(reg, key) ==
    IF MapHas(reg.pending, key)
    THEN [pending |-> MapDelete(reg.pending, key), latestByCall |-> [c \in {} |-> key]]
    ELSE reg

\* voice-state.mjs:88-98
deleteTurn(reg, key) ==
    LET item == getPendingTurn(reg, key)
        kept == MapDelete(reg.pending, key)
    IN IF /\ item # None
          /\ item.callSid # ""
          /\ MapHas(reg.latestByCall, item.callSid)
          /\ reg.latestByCall[item.callSid] = key
       THEN [pending |-> kept,
             latestByCall |-> MapDelete(reg.latestByCall, item.callSid)]
       ELSE [pending |-> kept, latestByCall |-> reg.latestByCall]

\* voice-state.mjs:104  maxAgeMs = 5 * 60 * 1000
DefaultMaxAgeMs == 5 * 60 * 1000

\* Mutant: a turn of age exactly maxAgeMs is removed too.
cleanupStaleTurns_AtCutoff(reg, maxAgeMs, t) ==
    LET cutoff == t - maxAgeMs
        stale == {k \in DOMAIN reg.pending : reg.pending[k].createdAt <= cutoff}
        cleared == {c \in DOMAIN reg.latestByCall :
                      \E k \in stale : /\ reg.pending[k].callSid = c
                                       /\ c # ""
                                       /\ reg.latestByCall[c] = k}
    IN [pending |-> [k \in DOMAIN reg.pending \ stale |-> reg.pending[k]],
        latestByCall |-> [c \in DOMAIN reg.latestByCall \ cleared |->
                              reg.latestByCall[c]]]

\* voice-state.mjs:104-114
cleanupStaleTurns(reg, maxAgeMs, t) ==
    LET cutoff == t - maxAgeMs
        stale == {k \in DOMAIN reg.pending : reg.pending[k].createdAt < cutoff}
        cleared == {c \in DOMAIN reg.latestByCall :
                      \E k \in stale : /\ reg.pending[k].callSid = c
                                       /\ c # ""
                                       /\ reg.latestByCall[c] = k}
    IN [pending |-> [k \in DOMAIN reg.pending \ stale |-> reg.pending[k]],
        latestByCall |-> [c \in DOMAIN reg.latestByCall \ cleared |->
                              reg.latestByCall[c]]]

\* voice-state.mjs:117, :119
pendingSize(reg) == Cardinality(DOMAIN reg.pending)
latestByCallSize(reg) == Cardinality(DOMAIN reg.latestByCall)

\* ------------------------------------------------------------ input values
\* form.From values; the first is on the allowlist used below.
Froms == {"+15550001111", "+15550002222"}
\* Arguments of direct registry calls (test/voice-state.test.mjs).
ApiFroms == {"+15550001111"}
ApiSaid == {<<"h", "i">>}
ApiReplies == {<<>>, <<"a">>}
\* maxAgeMs arguments of cleanupStaleTurns (test/voice-state.test.mjs:173, :182
\* pass their own; http-server.mjs:280 uses the default).
CleanupAges == {0, DefaultMaxAgeMs, TickMs}

\* ------------------------------------------------------------------- Init
EmptyMap == [x \in {} |-> None]

\* No request was answered yet.
NoResponse == [route |-> "none", status |-> 0, twiml |-> None]

\* A rate limiter as createRateLimiter(max, windowMs) returns it: nothing
\* recorded, no check made.
createRateLimiter(max, windowMs) ==
    [max |-> max, windowMs |-> windowMs, hits |-> EmptyMap, log |-> <<>>]

\* No request body is being read.
NoBody == [pc |-> "idle", route |-> "none", chunks |-> 0, total |-> 0,
           kept |-> 0, done |-> FALSE, ended |-> FALSE]

\* createServer was not called yet: nothing is configured, no signature
\* was checked.
\* agent.mjs:16  discordInFlight = 0; channel tells whether
\* DISCORD_LOG_CHANNEL_ID (config.mjs:80) is set.
createNotifier(channel) ==
    [channel |-> channel, inFlight |-> 0, running |-> 0,
     dropped |-> 0, resolved |-> 0, rejected |-> 0]

NoAuth == [created |-> FALSE, authToken |-> <<>>, baseUrl |-> <<>>,
           checked |-> <<>>]

\* config.mjs:58  Number(process.env.OPENCLAW_MAX_CONCURRENT || 10)
DefaultMaxConcurrent == 10

\* The state after the modules are loaded, for a configuration with the
\* semaphore capacity taken from Capacities and the rate limiter from
\* Limiters.
InitServer(Capacities, Limiters, Notifiers) ==
    /\ pending = EmptyMap
    /\ latestByCall = EmptyMap
    /\ now = 0
    /\ nextId = 1
    /\ lastCreated = [c \in CallSids |-> None]
    /\ lastCall = [op |-> "none", key |-> None, prev |-> None]
    /\ cap \in Capacities
    /\ apiMode \in BOOLEAN
    /\ active = 0
    /\ queue = <<>>
    /\ call = EmptyMap
    /\ completed = [i \in TurnIds |-> <<>>]
    /\ delivered = [i \in TurnIds |-> <<>>]
    /\ sms = EmptyMap
    /\ drain = [pc |-> "idle", start |-> 0, deadline |-> 0, pollMs |-> 0,
                wakeAt |-> 0, result |-> 0, resolvedAt |-> 0]
    /\ rl \in Limiters
    /\ http = NoResponse
    /\ body = NoBody
    /\ auth = NoAuth
    /\ discord \in Notifiers

\* The server without DISCORD_LOG_CHANNEL_ID: discordLog returns at once
\* (agent.mjs:66).
InitFor(Capacities, Limiters) ==
    InitServer(Capacities, Limiters, {createNotifier(FALSE)})

\* The same with rate limiting disabled: http-server.mjs creates no limiter.
InitWith(Capacities) == InitFor(Capacities, {createRateLimiter(0, 0)})

\* Date.now() moves on.
Tick ==
    /\ now < MaxTicks * TickMs
    /\ now' = now + TickMs
    /\ UNCHANGED <<pending, latestByCall, nextId, lastCreated, lastCall>>
    /\ UNCHANGED <<confVars, extVars, semVars, call, histVars>>

\* ------------------------------------------- the registry called directly
\* createPendingTurn({ key, callSid, from, said }) with a key unique to the
\* exchange, as test/voice-state.test.mjs does.
ApiCreate(callSid, from, said) ==
    /\ nextId <= MaxTurns
    /\ LET key == MakeKey(callSid, nextId)
           reg == createPendingTurn(Registry, key, callSid, from, said, now)
       IN /\ pending' = reg.pending
          /\ latestByCall' = reg.latestByCall
          /\ lastCreated' = [lastCreated EXCEPT ![callSid] = key]
          /\ lastCall' = [op |-> "create", key |-> key,
                          prev |-> IF MapHas(latestByCall, callSid)
                                   THEN latestByCall[callSid] ELSE None]
    /\ nextId' = nextId + 1
    /\ UNCHANGED now
    /\ UNCHANGED <<confVars, extVars, semVars, call, histVars>>

ApiComplete(key, reply) ==
    /\ LET reg == completeTurn(Registry, key, reply)
       IN /\ pending' = reg.pending
          /\ latestByCall' = reg.latestByCall
    /\ lastCall' = [op |-> "complete", key |-> key, prev |-> None]
    /\ UNCHANGED <<now, nextId, lastCreated>>
    /\ UNCHANGED <<confVars, extVars, semVars, call, histVars>>

ApiDelete(key) ==
    /\ LET reg == deleteTurn(Registry, key)
       IN /\ pending' = reg.pending
          /\ latestByCall' = reg.latestByCall
    /\ lastCall' = [op |-> "delete", key |-> key, prev |-> None]
    /\ UNCHANGED <<now, nextId, lastCreated>>
    /\ UNCHANGED <<confVars, extVars, semVars, call, histVars>>

ApiCleanup(maxAgeMs) ==
    /\ LET reg == cleanupStaleTurns(Registry, maxAgeMs, now)
       IN /\ pending' = reg.pending
          /\ latestByCall' = reg.latestByCall
    /\ lastCall' = [op |-> "cleanup", key |-> None, prev |-> None]
    /\ UNCHANGED <<now, nextId, lastCreated>>
    /\ UNCHANGED <<confVars, extVars, semVars, call, histVars>>

RegistryNext ==
    \/ \E c \in CallSids, f \in ApiFroms, s \in ApiSaid : ApiCreate(c, f, s)
    \/ \E k \in Keys, r \in ApiReplies : ApiComplete(k, r)
    \/ \E k \in Keys : ApiDelete(k)
    \/ \E a \in CleanupAges : ApiCleanup(a)
    \/ Tick

\* The registry on its own: the gateway is not used.
RegistryInit == InitWith({DefaultMaxConcurrent}) /\ ~apiMode

RegistrySpec == RegistryInit /\ [][RegistryNext]_vars

\* ------------------------------------------------------ registry properties
\* The turns stored for one call.
StoredOf(reg, callSid) ==
    {k \in DOMAIN reg.pending : reg.pending[k].callSid = callSid}

\* A step that creates the turn with the fresh token nextId for callSid.
CreatesTurn(callSid) ==
    /\ nextId' = nextId + 1
    /\ MapHas(pending', MakeKey(callSid, nextId))

\* C1 (supersession): when a turn k2 is created for a call whose latest turn
\* is k1, then afterwards k1 is gone from the registry, k1 is not the latest
\* turn, k2 is the latest turn, and k2 is the only turn stored for the call.
C1_Supersession ==
    [][\A c \in CallSids, k1 \in Keys :
         (isLatestTurn(Registry, k1, c) /\ CreatesTurn(c))
         => LET k2 == MakeKey(c, nextId)
            IN /\ getPendingTurn(Registry', k1) = None
               /\ ~isLatestTurn(Registry', k1, c)
               /\ isLatestTurn(Registry', k2, c)
               /\ StoredOf(Registry', c) = {k2}]_vars

\* A third turn of one call has just superseded the second.
C1_Witness ==
    /\ lastCall.op = "create"
    /\ lastCall.prev # None
    /\ lastCall.key.turnId = 3
    /\ lastCall.prev.turnId = 2
    /\ lastCall.prev.callSid = lastCall.key.callSid
    /\ getPendingTurn(Registry, lastCall.prev) = None
    /\ isLatestTurn(Registry, lastCall.key, lastCall.key.callSid)

\* C2 (at most one latest): for every call identifier at most one turn key
\* satisfies isLatestTurn.
C2_AtMostOneLatest ==
    \A c \in CallSids :
        Cardinality({k \in Keys : isLatestTurn(Registry, k, c)}) <= 1

\* After a create, a completion and a removal on one call, a second call
\* still has its latest turn.
C2_Witness ==
    /\ lastCall.op \in {"delete", "cleanup"}
    /\ nextId > 2
    /\ \E c \in CallSids :
         /\ Cardinality({k \in Keys : isLatestTurn(Registry, k, c)}) = 1
         /\ \E d \in CallSids \ {c} :
              /\ lastCreated[d] # None
              /\ {k \in Keys : isLatestTurn(Registry, k, d)} = {}

\* C3 (latest-pointer consistency): latestByCall[c] = k exactly when k is
\* stored with callSid c and k is the turn created last for c; no pointer
\* refers to a key that is not stored; both maps have the same size.
C3_LatestPointerConsistency ==
    /\ \A c \in CallSids, k \in Keys :
         (MapHas(latestByCall, c) /\ latestByCall[c] = k)
         <=> (MapHas(pending, k) /\ pending[k].callSid = c /\ lastCreated[c] = k)
    /\ \A c \in DOMAIN latestByCall :
         c \in CallSids /\ MapHas(pending, latestByCall[c])
    /\ pendingSize(Registry) = latestByCallSize(Registry)

\* The latest turn of one call was removed and its pointer with it, while
\* another call keeps its pointer.
C3_Witness ==
    /\ lastCall.op \in {"delete", "cleanup"}
    /\ \E c \in CallSids :
         /\ lastCreated[c] # None
         /\ ~MapHas(latestByCall, c)
         /\ \E d \in CallSids \ {c} : MapHas(latestByCall, d)

\* C6 (completion of a missing key): completeTurn on a key that is not in
\* the registry changes neither map.
C6_CompleteMissingIsNoOp ==
    [][(/\ lastCall'.op = "complete"
        /\ now' = now
        /\ ~MapHas(pending, lastCall'.key))
       => (pending' = pending /\ latestByCall' = latestByCall)]_vars

\* The completion of a superseded turn arrived while the superseding turn
\* is stored and still waits for its own reply.
C6_Witness ==
    /\ lastCall.op = "complete"
    /\ ~MapHas(pending, lastCall.key)
    /\ lastCall.key.turnId < nextId
    /\ MapHas(latestByCall, lastCall.key.callSid)
    /\ latestByCall[lastCall.key.callSid].turnId > lastCall.key.turnId
    /\ ~pending[latestByCall[lastCall.key.callSid]].done

\* ------------------------------------------------------------ the semaphore
Semaphore == [active |-> active, queue |-> queue]

\* Mutant: the capacity test admits one holder too many.
acquire_OffByOne(sem, max, id) ==
    IF sem.active <= max
    THEN [active |-> sem.active + 1, queue |-> sem.queue, granted |-> TRUE]
    ELSE [active |-> sem.active, queue |-> Append(sem.queue, id),
          granted |-> FALSE]

\* Mutant: an acquire that finds every slot held is turned away instead of
\* being queued.
acquire_Reject(sem, max, id) ==
    IF sem.active < max
    THEN [active |-> sem.active + 1, queue |-> sem.queue, granted |-> TRUE]
    ELSE [active |-> sem.active, queue |-> sem.queue, granted |-> FALSE]

\* Mutant: a capacity of 0 or less is taken to mean no limit.
acquire_ZeroUnlimited(sem, max, id) ==
    IF max <= 0 \/ sem.active < max
    THEN [active |-> sem.active + 1, queue |-> sem.queue, granted |-> TRUE]
    ELSE [active |-> sem.active, queue |-> Append(sem.queue, id),
          granted |-> FALSE]

\* utils.mjs:75-78  acquire(); granted tells whether the promise returned is
\* already resolved, otherwise the caller's resolver id is queued.
acquire(sem, max, id) ==
    IF sem.active < max
    THEN [active |-> sem.active + 1, queue |-> sem.queue, granted |-> TRUE]
    ELSE [active |-> sem.active, queue |-> Append(sem.queue, id),
          granted |-> FALSE]

\* Mutant: the newest waiter is resumed (pop instead of shift).
release_Lifo(sem) ==
    IF Len(sem.queue) > 0
    THEN [active |-> sem.active,
          queue |-> SubSeq(sem.queue, 1, Len(sem.queue) - 1),
          woken |-> sem.queue[Len(sem.queue)]]
    ELSE [active |-> sem.active - 1, queue |-> sem.queue, woken |-> 0]

\* Mutant: the counter is decremented also when the slot goes to a waiter.
release_Decrements(sem) ==
    IF Len(sem.queue) > 0
    THEN [active |-> sem.active - 1, queue |-> Tail(sem.queue),
          woken |-> Head(sem.queue)]
    ELSE [active |-> sem.active - 1, queue |-> sem.queue, woken |-> 0]

\* utils.mjs:79-82  release(); woken is the resolver taken from the queue
\* (0 when there is none).
release(sem) ==
    IF Len(sem.queue) > 0
    THEN [active |-> sem.active, queue |-> Tail(sem.queue),
          woken |-> Head(sem.queue)]
    ELSE [active |-> sem.active - 1, queue |-> sem.queue, woken |-> 0]

\* -------------------------------------------------- openclawReply (agent.mjs)
\* What the backend can yield.  Standalone path: run() rejects, or resolves
\* with stdout whose reply text is text.  Plugin path: runEmbeddedPiAgent
\* rejects, or resolves with a list of payloads.
StandaloneOutcomes ==
    {[threw |-> TRUE, text |-> <<>>]} \cup
    {[threw |-> FALSE, text |-> t] : t \in {<<>>, <<" ", "*", "b", "\n">>}}

PluginOutcomes ==
    {[threw |-> TRUE, payloads |-> <<>>]} \cup
    {[threw |-> FALSE, payloads |-> p] :
        p \in {<<[text |-> <<"a">>, isError |-> TRUE]>>,
               <<[text |-> <<"a", " ">>, isError |-> FALSE],
                 [text |-> <<" ">>, isError |-> FALSE],
                 [text |-> <<"*", "b">>, isError |-> FALSE]>>}}

\* agent.mjs:187-200  the text taken from stdout, trimmed.
StandaloneReplyText(text) == Trim(text)

PayloadKept(p) == p.text # <<>> /\ ~p.isError
NonEmptyText(t) == t # <<>>

RECURSIVE TrimAll(_)
TrimAll(ps) ==
    IF ps = <<>> THEN <<>> ELSE <<Trim(Head(ps).text)>> \o TrimAll(Tail(ps))

RECURSIVE JoinSpace(_)
JoinSpace(ts) ==
    IF ts = <<>> THEN <<>>
    ELSE IF Len(ts) = 1 THEN Head(ts)
    ELSE Head(ts) \o <<" ">> \o JoinSpace(Tail(ts))

\* agent.mjs:154-158
PluginReplyText(payloads) ==
    JoinSpace(SelectSeq(TrimAll(SelectSeq(payloads, PayloadKept)), NonEmptyText))

\* The gateway's state as one value: the semaphore and the calls.
Gateway == [active |-> active, queue |-> queue, call |-> call]

SetGateway(g) ==
    /\ active' = g.active
    /\ queue' = g.queue
    /\ call' = g.call

\* agent.mjs:138 and :167  await agentSem.acquire().  A granted caller goes
\* on to invoke the backend in the same turn of the event loop; the other
\* waits in the queue.
AcquireSlot(g, id, key) ==
    LET a == acquire([active |-> g.active, queue |-> g.queue], cap, id)
    IN [active |-> a.active,
        queue |-> a.queue,
        call |-> MapSet(g.call, id,
                        [pc |-> IF a.granted THEN "running" ELSE "waiting",
                         key |-> key, result |-> None,
                         waited |-> ~a.granted])]

\* agent.mjs:116-167  openclawReply up to its first suspension: the plugin
\* path first awaits its dependencies and the session store (:119-133), the
\* standalone path asks for a slot at once (:165-167).
StartOpenclawReply(g, id, key) ==
    IF apiMode
    THEN [g EXCEPT !.call = MapSet(@, id, [pc |-> "prep", key |-> key,
                                           result |-> None, waited |-> FALSE])]
    ELSE AcquireSlot(g, id, key)

\* How openclawReply can end once its backend invocation has settled:
\* agent.mjs:140-158 (plugin) and :169-200 (standalone).
BackendResults ==
    IF apiMode
    THEN {IF o.threw
          THEN [ok |-> FALSE, reply |-> <<>>, acquired |-> TRUE]
          ELSE [ok |-> TRUE, reply |-> PluginReplyText(o.payloads),
                acquired |-> TRUE] : o \in PluginOutcomes}
    ELSE {IF o.threw
          THEN [ok |-> FALSE, reply |-> <<>>, acquired |-> TRUE]
          ELSE [ok |-> TRUE, reply |-> StandaloneReplyText(o.text),
                acquired |-> TRUE] : o \in StandaloneOutcomes}

\* agent.mjs:119-133  plugin path: a preparation step rejects (loading the
\* extension API, ensureAgentWorkspace, saveSessionStore); no slot was asked.
PrepFailure == [ok |-> FALSE, reply |-> <<>>, acquired |-> FALSE]

\* The backend invocation of call id has settled with result.
Settled(g, id, result) ==
    [g EXCEPT !.call[id].pc = "settled", !.call[id].result = result]

\* Mutant: the slot is given back on the success path only (no finally).
ReleasesSlot_OnSuccessOnly(result) == result.ok

\* agent.mjs:159-161 and :201-203  the finally block runs on return and on
\* throw alike.
ReleasesSlot(result) == TRUE

\* agent.mjs:154-161 and :189-203  openclawReply leaves its try block: the
\* slot is released and the promise settles with the reply or the error.  A
\* waiter that receives the slot goes on to invoke the backend.
Returned(g, id) ==
    IF ReleasesSlot(g.call[id].result)
    THEN LET r == release([active |-> g.active, queue |-> g.queue])
         IN [active |-> r.active,
             queue |-> r.queue,
             call |-> [i \in DOMAIN g.call |->
                         IF i = id THEN [g.call[i] EXCEPT !.pc = "returned"]
                         ELSE IF i = r.woken THEN [g.call[i] EXCEPT !.pc = "running"]
                         ELSE g.call[i]]]
    ELSE [g EXCEPT !.call[id].pc = "returned"]

\* agent.mjs:119-138  plugin path: the preparations are done.
PrepDone(id) ==
    /\ MapHas(call, id) /\ call[id].pc = "prep"
    /\ SetGateway(AcquireSlot(Gateway, id, call[id].key))
    /\ UNCHANGED <<regVars, confVars, extVars, histVars>>

\* agent.mjs:119-133  plugin path: the call rejects before it asks for a slot.
PrepFail(id) ==
    /\ MapHas(call, id) /\ call[id].pc = "prep"
    /\ call' = [call EXCEPT ![id].pc = "returned", ![id].result = PrepFailure]
    /\ UNCHANGED <<regVars, confVars, extVars, semVars, histVars>>

\* agent.mjs:140 and :169  the awaited backend invocation settles.
BackendSettles(id) ==
    /\ MapHas(call, id) /\ call[id].pc = "running"
    /\ \E result \in BackendResults : SetGateway(Settled(Gateway, id, result))
    /\ UNCHANGED <<regVars, confVars, extVars, histVars>>

\* agent.mjs:154-161 and :189-203  return or throw through the finally block.
Finally(id) ==
    /\ MapHas(call, id) /\ call[id].pc = "settled"
    /\ SetGateway(Returned(Gateway, id))
    /\ UNCHANGED <<regVars, confVars, extVars, histVars>>

\* openclawReply called directly (test/agent.test.mjs:147-164).
CallOpenclawReply ==
    /\ nextId <= MaxCalls
    /\ SetGateway(StartOpenclawReply(Gateway, nextId, None))
    /\ nextId' = nextId + 1
    /\ UNCHANGED <<pending, latestByCall, now, lastCreated, lastCall>>
    /\ UNCHANGED <<confVars, extVars, histVars>>

AgentNext ==
    \/ CallOpenclawReply
    \/ \E id \in DOMAIN call : PrepDone(id)
    \/ \E id \in DOMAIN call : PrepFail(id)
    \/ \E id \in DOMAIN call : BackendSettles(id)
    \/ \E id \in DOMAIN call : Finally(id)

AgentInit == InitWith(0..MaxCap)

AgentSpec == AgentInit /\ [][AgentNext]_vars

\* ----------------------------------------------------- semaphore properties
\* The calls that hold a slot: acquire() was granted and release() not yet
\* called.
Holders == {id \in DOMAIN call : call[id].pc \in {"running", "settled"}}
\* The calls whose backend invocation is in progress.
Running == {id \in DOMAIN call : call[id].pc = "running"}
Waiting == {id \in DOMAIN call : call[id].pc = "waiting"}

\* C8 (concurrency cap): with capacity >= 1 the number of slot holders, and
\* so the number of backend invocations in progress, never exceeds the
\* capacity; with capacity 1 no two calls are inside the guarded section.
C8_ConcurrencyCap ==
    cap >= 1 =>
        /\ Cardinality(Holders) <= cap
        /\ Cardinality(Running) <= cap
        /\ cap = 1 => \A i \in Holders, j \in Holders : i = j

\* More calls than slots: every slot is taken, a call waits, and a slot has
\* already been released once.
C8_Witness ==
    /\ cap >= 1
    /\ Cardinality(Holders) = cap
    /\ Len(queue) >= 1
    /\ \E id \in DOMAIN call : call[id].pc = "returned" /\ call[id].result.acquired

\* C9 (FIFO granting): the queue only grows at its tail, by the call whose
\* acquire has to wait, and only shrinks at its head; the call that leaves
\* the waiting state is the one at the head of the queue; a call that asks
\* for a slot while others wait is not granted one.
C9_FifoGranting ==
    [][/\ \A id \in DOMAIN call :
            (call[id].pc = "waiting" /\ call'[id].pc # "waiting")
            => (queue # <<>> /\ id = Head(queue) /\ queue' = Tail(queue)
                /\ call'[id].pc = "running")
       /\ \A id \in DOMAIN call' :
            (call'[id].pc = "waiting" /\ (id \notin DOMAIN call \/ call[id].pc # "waiting"))
            => queue' = Append(queue, id)
       /\ \A id \in DOMAIN call' :
            (queue # <<>> /\ (id \notin DOMAIN call \/ call[id].pc = "prep"))
            => call'[id].pc # "running"
       /\ \/ queue' = queue
          \/ queue # <<>> /\ queue' = Tail(queue)
          \/ \E id \in DOMAIN call' : queue' = Append(queue, id)]_vars

\* Two calls had to wait; the first of them has been handed the slot and the
\* second is now at the head of the queue.
C9_Witness ==
    \E i \in DOMAIN call, j \in DOMAIN call :
        /\ call[i].waited /\ call[i].pc = "running"
        /\ call[j].waited /\ call[j].pc = "waiting"
        /\ queue = <<j>>

\* C10 (guaranteed release): a call holds a slot only while its backend
\* invocation is running or its result is about to be returned, so the
\* counter equals the number of such calls whether earlier calls returned or
\* threw; once every started call has settled no slot is held and nobody
\* waits.
C10_GuaranteedRelease ==
    /\ active = Cardinality(Holders)
    /\ (\A id \in DOMAIN call : call[id].pc \in {"returned", "done"})
       => (active = 0 /\ queue = <<>>)

\* Every call has settled, one of them with a backend error after it had
\* obtained its slot, another with a reply.
C10_Witness ==
    /\ nextId > 2
    /\ \A id \in DOMAIN call : call[id].pc = "returned"
    /\ \E id \in DOMAIN call : ~call[id].result.ok /\ call[id].result.acquired
    /\ \E id \in DOMAIN call : call[id].result.ok
    /\ active = 0

\* ------------------------------------------------ the HTTP handlers (voice)
\* config.mjs:39 ALLOW_FROM, here with one number configured.
ALLOW_FROM == {"+15550001111"}

\* form.SpeechResult as sent by the provider (before .trim()).
SpeechResults == {<<>>, <<" ">>, <<"h", "i">>}

\* http-server.mjs:117-127 (and :187-197): the body is read, then the
\* signature is checked; tooLarge and sigValid are readBody's and
\* checkSignature's verdicts on the request.  A rejected request is answered
\* 413 or 403 and nothing else happens.
Rejected(tooLarge, sigValid) == tooLarge \/ ~sigValid

\* http-server.mjs:173  completeTurn(key, reply || "Okay.")
CompletionText(reply) == IF reply # <<>> THEN reply ELSE OkayText

\* Mutant: a rejected openclawReply is not turned into the apology.
ReplyOrApology_NoApology(result) == result.reply

\* http-server.mjs:161-164  a rejected openclawReply becomes the apology.
ReplyOrApology(result) == IF result.ok THEN result.reply ELSE ApologyText

\* http-server.mjs:155-174  the /speech task, resumed with the settled
\* openclawReply, completes its turn; completed records the call made.
TaskCompletes(id, key, result) ==
    \E text \in {CompletionText(ReplyOrApology(result))} :
      \E reg \in {completeTurn(Registry, key, text)} :
         /\ pending' = reg.pending
         /\ latestByCall' = reg.latestByCall
         /\ completed' = [completed EXCEPT ![id] = Append(@, text)]

\* http-server.mjs:116-183  POST /speech.  For an empty utterance the task
\* reaches no await: it completes the turn inside the handler (:158-173).
SpeechHandler(tooLarge, sigValid, from, formCallSid, speechResult) ==
    /\ nextId <= MaxSpeech
    /\ IF Rejected(tooLarge, sigValid)
       THEN UNCHANGED coreVars
       ELSE IF ALLOW_FROM # {} /\ from # "" /\ from \notin ALLOW_FROM
       THEN UNCHANGED coreVars
       ELSE LET callSid == NormCallSid(formCallSid)
                said == Trim(speechResult)
                key == MakeKey(callSid, nextId)
            IN \E created \in {createPendingTurn(Registry, key, callSid, from, said, now)} :
               /\ lastCreated' = [lastCreated EXCEPT ![callSid] = key]
               /\ nextId' = nextId + 1
               /\ IF said # <<>>
                  THEN /\ pending' = created.pending
                       /\ latestByCall' = created.latestByCall
                       /\ SetGateway(StartOpenclawReply(Gateway, nextId, key))
                       /\ UNCHANGED completed
                  ELSE \E reg \in {completeTurn(created, key,
                                                CompletionText(DidNotCatchText))} :
                          /\ pending' = reg.pending
                          /\ latestByCall' = reg.latestByCall
                          /\ call' = MapSet(call, nextId,
                                            [pc |-> "done", key |-> key,
                                             result |-> None, waited |-> FALSE])
                          /\ completed' = [completed EXCEPT ![nextId] =
                                             Append(@, CompletionText(DidNotCatchText))]
                          /\ UNCHANGED semVars
               /\ UNCHANGED <<now, lastCall, confVars, delivered>>

\* POST /speech where only the registry and the backend calls are followed.
Speech(tooLarge, sigValid, from, formCallSid, speechResult) ==
    /\ SpeechHandler(tooLarge, sigValid, from, formCallSid, speechResult)
    /\ UNCHANGED extVars

\* agent.mjs:119-133 with http-server.mjs:161-173  plugin path: openclawReply
\* rejects during its preparations and the task completes the turn with the
\* apology.
TaskPrepFails(id) ==
    /\ MapHas(call, id) /\ call[id].pc = "prep"
    /\ TaskCompletes(id, call[id].key, PrepFailure)
    /\ call' = [call EXCEPT ![id].pc = "done", ![id].result = PrepFailure]
    /\ UNCHANGED <<now, nextId, lastCreated, lastCall>>
    /\ UNCHANGED <<confVars, extVars, semVars, delivered>>

\* agent.mjs:140-161, :169-203 with http-server.mjs:155-174  the backend
\* invocation settles; in the same turn of the event loop openclawReply
\* leaves through its finally block and the /speech task, resumed with the
\* reply or the error, completes its turn.  (The continuations are promise
\* reactions, which run before the next request or timer is served.)
TaskResumes(id) ==
    /\ MapHas(call, id) /\ call[id].pc = "running"
    /\ \E result \in BackendResults :
         \E g \in {Returned(Settled(Gateway, id, result), id)} :
            /\ SetGateway([g EXCEPT !.call[id].pc = "done"])
            /\ TaskCompletes(id, call[id].key, result)
    /\ UNCHANGED <<now, nextId, lastCreated, lastCall>>
    /\ UNCHANGED <<confVars, delivered>>

\* The same where only the registry and the backend calls are followed.
TaskSettles(id) ==
    /\ TaskResumes(id)
    /\ UNCHANGED extVars

\* Mutant: the poll answers from the latest turn of the key's call instead
\* of the turn the key names.
SpeechWaitOutcome_ByCall(reg, key) ==
    IF ~MapHas(reg.latestByCall, key.callSid)
    THEN [kind |-> "notfound", text |-> OkayText, reg |-> reg]
    ELSE LET item == reg.pending[reg.latestByCall[key.callSid]]
         IN IF ~item.done
            THEN [kind |-> "wait", text |-> <<>>, reg |-> reg]
            ELSE [kind |-> "reply",
                  text |-> toSayableText(item.reply, MAX_SAYABLE_LENGTH),
                  reg |-> deleteTurn(reg, reg.latestByCall[key.callSid])]

\* Mutant: the delivered turn is left in the registry.
SpeechWaitOutcome_NoDelete(reg, key) ==
    LET item == getPendingTurn(reg, key)
    IN IF item = None
       THEN [kind |-> "notfound", text |-> OkayText, reg |-> reg]
       ELSE IF ~isLatestTurn(reg, key, item.callSid)
       THEN [kind |-> "superseded", text |-> OkayText, reg |-> deleteTurn(reg, key)]
       ELSE IF ~item.done
       THEN [kind |-> "wait", text |-> <<>>, reg |-> reg]
       ELSE [kind |-> "reply",
             text |-> toSayableText(IF item.reply # <<>> THEN item.reply ELSE OkayText,
                                    MAX_SAYABLE_LENGTH),
             reg |-> reg]

\* Mutant: a poll that has to wait discards the turn.
SpeechWaitOutcome_WaitDeletes(reg, key) ==
    LET item == getPendingTurn(reg, key)
    IN IF item = None
       THEN [kind |-> "notfound", text |-> OkayText, reg |-> reg]
       ELSE IF ~isLatestTurn(reg, key, item.callSid)
       THEN [kind |-> "superseded", text |-> OkayText, reg |-> deleteTurn(reg, key)]
       ELSE IF ~item.done
       THEN [kind |-> "wait", text |-> <<>>, reg |-> deleteTurn(reg, key)]
       ELSE [kind |-> "reply",
             text |-> toSayableText(IF item.reply # <<>> THEN item.reply ELSE OkayText,
                                    MAX_SAYABLE_LENGTH),
             reg |-> deleteTurn(reg, key)]

\* http-server.mjs:198-234  what a poll for key answers (kind, and the text
\* it says) and what it leaves in the registry.
SpeechWaitOutcome(reg, key) ==
    LET item == getPendingTurn(reg, key)
    IN IF item = None
       THEN [kind |-> "notfound", text |-> OkayText, reg |-> reg]
       ELSE IF ~isLatestTurn(reg, key, item.callSid)
       THEN [kind |-> "superseded", text |-> OkayText, reg |-> deleteTurn(reg, key)]
       ELSE IF ~item.done
       THEN [kind |-> "wait", text |-> <<>>, reg |-> reg]
       ELSE [kind |-> "reply",
             text |-> toSayableText(IF item.reply # <<>> THEN item.reply ELSE OkayText,
                                    MAX_SAYABLE_LENGTH),
             reg |-> deleteTurn(reg, key)]

\* http-server.mjs:186-235  POST /speech-wait?key=...; delivered records the
\* reply texts answered.
SpeechWaitHandler(tooLarge, sigValid, key) ==
    IF Rejected(tooLarge, sigValid)
    THEN UNCHANGED coreVars
    ELSE \E out \in {SpeechWaitOutcome(Registry, key)} :
            /\ pending' = out.reg.pending
            /\ latestByCall' = out.reg.latestByCall
            /\ delivered' = IF out.kind = "reply"
                            THEN [delivered EXCEPT ![key.turnId] = Append(@, out.text)]
                            ELSE delivered
            /\ UNCHANGED <<now, nextId, lastCreated, lastCall>>
            /\ UNCHANGED <<confVars, semVars, call, completed>>

\* POST /speech-wait where only the registry and the deliveries are followed.
SpeechWait(tooLarge, sigValid, key) ==
    /\ SpeechWaitHandler(tooLarge, sigValid, key)
    /\ UNCHANGED extVars

\* http-server.mjs:280  setInterval(() => cleanupStaleTurns(), 60_000)
CleanupTimer ==
    /\ \E reg \in {cleanupStaleTurns(Registry, DefaultMaxAgeMs, now)} :
          /\ pending' = reg.pending
          /\ latestByCall' = reg.latestByCall
    /\ UNCHANGED <<now, nextId, lastCreated, lastCall>>
    /\ UNCHANGED <<confVars, extVars, semVars, call, histVars>>

\* Requests are tried with every verdict of readBody and checkSignature; the
\* rejected ones with one form, because their form is never looked at
\* (http-server.mjs:117-127, :187-197).
Next ==
    \/ \E from \in Froms, c \in FormCallSids, s \in SpeechResults :
            Speech(FALSE, TRUE, from, c, s)
    \/ \E tooLarge \in BOOLEAN, sigValid \in BOOLEAN :
            /\ Rejected(tooLarge, sigValid)
            /\ Speech(tooLarge, sigValid, "+15550001111", "CA1", <<"h", "i">>)
    \/ \E k \in Keys : SpeechWait(FALSE, TRUE, k)
    \/ \E tooLarge \in BOOLEAN, sigValid \in BOOLEAN :
            /\ Rejected(tooLarge, sigValid)
            /\ SpeechWait(tooLarge, sigValid, MakeKey("CA1", 1))
    \/ CleanupTimer
    \/ Tick
    \/ \E id \in DOMAIN call : PrepDone(id)
    \/ \E id \in DOMAIN call : TaskPrepFails(id)
    \/ \E id \in DOMAIN call : TaskSettles(id)

\* The server with OPENCLAW_MAX_CONCURRENT=1, so that a second utterance
\* finds the slot taken; with either backend.
Init == InitWith({1})

Spec == Init /\ [][Next]_vars

\* The /speech tasks on their own: utterances, polls and the resumptions of
\* the tasks, with the registry's clock standing still (no sweep removes a
\* turn), under the fairness the event loop gives a suspended task: the
\* plugin path's preparations end (agent.mjs:119-133) and an invoked backend
\* settles (agent.mjs:140, :169 -- the subprocess runs under a timeout).
TaskNext ==
    \/ \E from \in Froms, c \in FormCallSids, s \in SpeechResults :
            Speech(FALSE, TRUE, from, c, s)
    \/ \E tooLarge \in BOOLEAN, sigValid \in BOOLEAN :
            /\ Rejected(tooLarge, sigValid)
            /\ Speech(tooLarge, sigValid, "+15550001111", "CA1", <<"h", "i">>)
    \/ \E k \in Keys : SpeechWait(FALSE, TRUE, k)
    \/ \E id \in DOMAIN call : PrepDone(id)
    \/ \E id \in DOMAIN call : TaskPrepFails(id)
    \/ \E id \in DOMAIN call : TaskSettles(id)

FairSpec ==
    /\ Init
    /\ [][TaskNext]_vars
    /\ \A id \in 1..MaxSpeech : WF_vars(PrepDone(id) \/ TaskPrepFails(id))
    /\ \A id \in 1..MaxSpeech : WF_vars(TaskSettles(id))

\* ---------------------------------------------------- properties of polling
\* The poll of this step answered with the reply of turn id.
Delivers(id) == delivered'[id] # delivered[id]

\* C4 (as amended): whenever a /speech-wait poll answers with a reply for
\* key k, k is at that moment the latest turn of its call, completeTurn was
\* called for k, and the text delivered is the sayable form
\* (toSayableText, cut at MAX_SAYABLE_LENGTH) of the reply passed to that
\* call -- never the reply of another turn.
C4_NoStaleDelivery ==
    [][\A id \in TurnIds :
         Delivers(id) =>
            /\ MapHas(call, id)
            /\ isLatestTurn(Registry, call[id].key, call[id].key.callSid)
            /\ Len(completed[id]) = 1
            /\ delivered'[id] =
                 Append(delivered[id],
                        toSayableText(completed[id][1], MAX_SAYABLE_LENGTH))]_vars

\* C4 as stated: the text delivered is, character for character, the reply
\* that was passed to completeTurn.
C4_Original ==
    [][\A id \in TurnIds :
         Delivers(id) =>
            /\ MapHas(call, id)
            /\ isLatestTurn(Registry, call[id].key, call[id].key.callSid)
            /\ Len(completed[id]) = 1
            /\ delivered'[id] = Append(delivered[id], completed[id][1])]_vars

\* The second turn of a call was delivered after the backend had also
\* answered the first, superseded turn of that call with another text.
C4_Witness ==
    /\ {1, 2} \subseteq DOMAIN call
    /\ call[1].key.callSid = call[2].key.callSid
    /\ Len(completed[1]) = 1 /\ Len(completed[2]) = 1
    /\ completed[1] # completed[2]
    /\ delivered[1] = <<>>
    /\ delivered[2] = <<toSayableText(completed[2][1], MAX_SAYABLE_LENGTH)>>
    /\ delivered[2] # completed[2]

\* C5: a poll for a turn that is latest and done answers with the reply
\* outcome, carrying the stored reply, and deletes the turn in the same step;
\* a turn's reply is delivered at most once, and after the delivery every
\* poll for that key gets the not-found outcome.
C5_AtMostOnceDelivery ==
    /\ [](\A k \in DOMAIN pending :
            (isLatestTurn(Registry, k, pending[k].callSid) /\ pending[k].done)
            => \A out \in {SpeechWaitOutcome(Registry, k)} :
                 /\ out.kind = "reply"
                 /\ out.text = toSayableText(pending[k].reply, MAX_SAYABLE_LENGTH)
                 /\ ~MapHas(out.reg.pending, k))
    /\ [](\A id \in TurnIds :
            /\ Len(delivered[id]) <= 1
            /\ delivered[id] # <<>> =>
                 SpeechWaitOutcome(Registry, call[id].key).kind = "notfound")
    /\ [][\A id \in TurnIds :
            Delivers(id) =>
               /\ MapHas(pending, call[id].key)
               /\ pending[call[id].key].done
               /\ ~MapHas(pending', call[id].key)]_vars

\* A reply was delivered, its turn is gone, and a further poll for the key
\* is answered not-found while the call already has a newer turn.
C5_Witness ==
    \E id \in DOMAIN call :
        /\ Len(delivered[id]) = 1
        /\ ~MapHas(pending, call[id].key)
        /\ SpeechWaitOutcome(Registry, call[id].key).kind = "notfound"
        /\ MapHas(latestByCall, call[id].key.callSid)
        /\ latestByCall[call[id].key.callSid].turnId > id

\* ------------------------------------------- properties of the /speech task
\* The /speech task of turn id makes its completeTurn call in this step.
Completes(id) == completed'[id] # completed[id]

\* C7: for every turn created by /speech the turn is in the registry when
\* its backend call is started; once the backend call has settled
\* completeTurn(key, .) has been made exactly once, and its effect is that of
\* completeTurn(key, reply) on success and of completeTurn(key, apology) on
\* failure; with the backend settling, every created turn is eventually done
\* or deleted.
C7_FireAndForget ==
    /\ [][\A id \in TurnIds :
            (~MapHas(call, id) /\ MapHas(call', id)) =>
               /\ MapHas(pending', call'[id].key)
               /\ call'[id].pc = "done" <=> pending'[call'[id].key].done]_vars
    /\ [](\A id \in DOMAIN call :
            /\ Len(completed[id]) <= 1
            /\ call[id].pc = "done" <=> Len(completed[id]) = 1
            /\ call[id].result # None => call[id].pc = "done")
    /\ [][\A id \in TurnIds :
            (Completes(id) /\ call'[id].result # None) =>
               Registry' =
                 completeTurn(Registry, call'[id].key,
                              IF call'[id].result.ok
                              THEN call'[id].result.reply
                              ELSE ApologyText)]_vars
    /\ \A id \in 1..MaxSpeech :
         (MapHas(call, id) /\ MapHas(pending, call[id].key))
            ~> (\/ ~MapHas(call, id)
                \/ ~MapHas(pending, call[id].key)
                \/ pending[call[id].key].done)

\* Two turns of different calls are done: one backend call failed and its
\* turn holds the apology, the other succeeded after waiting for the slot and
\* its turn holds the backend's reply.
C7_Witness ==
    \E i, j \in DOMAIN call :
        /\ call[i].pc = "done" /\ call[i].result # None /\ ~call[i].result.ok
        /\ MapHas(pending, call[i].key)
        /\ pending[call[i].key].done
        /\ pending[call[i].key].reply = ApologyText
        /\ call[j].pc = "done" /\ call[j].result # None /\ call[j].result.ok
        /\ call[j].waited
        /\ MapHas(pending, call[j].key)
        /\ pending[call[j].key].done
        /\ pending[call[j].key].reply = call[j].result.reply
        /\ call[j].result.reply # <<>>

\* ------------------------------------------------ the semaphore, liveness
\* Tasks that use the semaphore directly, as in test/utils.test.mjs:116-174:
\* each task calls acquire(), holds its slot for a while and calls release()
\* once.  A task is a call record without a backend result.
SemAcquire(id) ==
    /\ ~MapHas(call, id)
    /\ SetGateway(AcquireSlot(Gateway, id, None))
    /\ UNCHANGED <<regVars, confVars, extVars, histVars>>

SemRelease(id) ==
    /\ MapHas(call, id) /\ call[id].pc = "running"
    /\ SetGateway(Returned(Gateway, id))
    /\ UNCHANGED <<regVars, confVars, extVars, histVars>>

SemNext ==
    \/ \E id \in 1..MaxCalls : SemAcquire(id)
    \/ \E id \in 1..MaxCalls : SemRelease(id)

\* createSemaphore(max) with max >= 1.
SemInit == InitWith(1..MaxCap) /\ ~apiMode

\* Every holder eventually releases.
SemFairSpec ==
    /\ SemInit
    /\ [][SemNext]_vars
    /\ \A id \in 1..MaxCalls : WF_vars(SemRelease(id))

\* The call id asks for a slot in this step.
Acquires(id) ==
    /\ MapHas(call', id)
    /\ call'[id].pc \in {"running", "waiting"}
    /\ ~MapHas(call, id) \/ call[id].pc = "prep"

\* C11 (queue, not reject; no starvation): an acquire made when all slots are
\* held puts the caller at the tail of the queue and changes nothing else;
\* every waiting call is in the queue exactly once and only waiting calls
\* are in it; with capacity >= 1 and holders that release, every waiting call
\* is eventually granted its slot.
C11_QueueNoStarvation ==
    /\ [][\A id \in 1..MaxCalls :
            (Acquires(id) /\ active >= cap) =>
               /\ call'[id].pc = "waiting"
               /\ queue' = Append(queue, id)
               /\ active' = active]_vars
    /\ [](\A id \in 1..MaxCalls :
            (MapHas(call, id) /\ call[id].pc = "waiting")
            <=> Cardinality({n \in 1..Len(queue) : queue[n] = id}) = 1)
    /\ [](\A n \in 1..Len(queue), m \in 1..Len(queue) :
            queue[n] = queue[m] => n = m)
    /\ \A id \in 1..MaxCalls :
         (MapHas(call, id) /\ call[id].pc = "waiting")
            ~> (MapHas(call, id) /\ call[id].pc = "running")

\* With one slot, two calls had to wait: the first of them was granted the
\* slot and has returned, the second has been granted it in turn.
C11_Witness ==
    /\ cap = 1
    /\ queue = <<>>
    /\ \E i \in DOMAIN call, j \in DOMAIN call :
          /\ i < j
          /\ call[i].waited /\ call[i].pc = "returned"
          /\ call[j].waited /\ call[j].pc = "running"

\* ------------------------------------------------------------- SMS (sms.mjs)
\* The inbound messages followed; they share no state in sms.mjs.
MaxSms == 1

\* sms.test.mjs:20  the maxChars the handler is given (options.maxChars).
maxChars == 10

\* sms.mjs:71  the default ackText.
ackText == <<"G", "o", "t", " ", "i", "t", " ", "-", " ", "t", "h", "i", "n", "k", "i", "n", "g", ".", " ", "I", "'", "l", "l", " ", "t", "e", "x", "t", " ", "y", "o", "u", " ", "b", "a", "c", "k", " ", "i", "n", " ", "a", " ", "m", "o", "m", "e", "n", "t", ".">>
\* sms.mjs:100
UnauthorizedText == <<"U", "n", "a", "u", "t", "h", "o", "r", "i", "z", "e", "d">>
\* sms.mjs:24, :111, :127  the fallback "Okay" (no full stop)
SmsOkayText == <<"O", "k", "a", "y">>

\* sms.mjs:22-26  the TwiML document, by the text of its Message element.
twimlMessage(text) == [Message |-> IF text # <<>> THEN text ELSE SmsOkayText]

\* sms.mjs:34-38  Unicode punctuation to ASCII; "U+2018" .. "U+2026" are
\* the single characters of those code points.
AsciiOf(c) ==
    CASE c \in {"U+2018", "U+2019"} -> <<"'">>
      [] c \in {"U+201C", "U+201D"} -> <<"\"">>
      [] c \in {"U+2013", "U+2014"} -> <<"-">>
      [] c = "U+2026" -> <<".", ".", ".">>
      [] OTHER -> <<c>>

RECURSIVE ReplacePunctuation(_)
ReplacePunctuation(s) ==
    IF s = <<>> THEN <<>> ELSE AsciiOf(Head(s)) \o ReplacePunctuation(Tail(s))

\* Math.max(0, n)
Max0(n) == IF n > 0 THEN n ELSE 0

\* sms.mjs:30-50
normalizeSmsText(input, max) ==
    LET s == Trim(CollapseWhitespace(ReplacePunctuation(input)))
    IN IF Len(s) > max
       THEN TrimEnd(Slice0(s, Max0(max - 1))) \o <<"U+2026">>
       ELSE s

\* The value of a missing form field (one token, not a character).
Undefined == <<"undefined">>
\* form.From as the provider sends it, or Undefined for a form without From.
SmsFroms == {Undefined, <<"+", "1">>, <<"1">>, <<" ", "+", "1", " ">>, <<"+", "2">>}
\* The allowFrom lists the handler is called with (ALLOW_FROM, config.mjs:39).
AllowFromInputs == {{}, {<<"+", "1">>}}

\* sms.mjs:83-84  fromNormalized
fromNormalized(from) ==
    LET fromTrimmed == IF from = Undefined THEN <<>> ELSE Trim(from)
    IN IF fromTrimmed # <<>> /\ Head(fromTrimmed) = "+"
       THEN fromTrimmed
       ELSE <<"+">> \o fromTrimmed

\* sms.mjs:95
isAllowedSender(allowFrom, from) ==
    allowFrom = {} \/ fromNormalized(from) \in allowFrom

\* What a call of deps.openclawReply settles with: it rejects, or resolves
\* with an empty reply, a short text or a text longer than maxChars.
SmsReplies ==
    { [ok |-> FALSE, reply |-> <<>>],
      [ok |-> TRUE, reply |-> <<>>],
      [ok |-> TRUE, reply |-> <<" ", "U+201C", "h", "i", "U+201D", "\n", " ", "!">>],
      [ok |-> TRUE, reply |-> <<"H", "i", " ", "U+2014", " ", "U+201C", "t", "h", "e", "r", "e", "U+201D", " ", "U+2026">>] }

\* sms.mjs:111 and :127  normalizeSmsText(raw || "Okay", { maxChars })
ReplyBody(raw) ==
    normalizeSmsText(IF raw # <<>> THEN raw ELSE SmsOkayText, maxChars)

\* sms.mjs:97-104
UnauthorizedResult ==
    [twiml |-> twimlMessage(UnauthorizedText), didAck |-> FALSE, startAsync |-> FALSE]
\* sms.mjs:111-117
FastResult(raw) ==
    [twiml |-> twimlMessage(ReplyBody(raw)), didAck |-> FALSE, startAsync |-> FALSE]
\* Mutant: the acknowledgement is returned without the continuation.
AckResult_NoContinuation ==
    [twiml |-> twimlMessage(ackText), didAck |-> TRUE, startAsync |-> FALSE]
\* sms.mjs:147-151  startAsync |-> TRUE stands for the function.
AckResult ==
    [twiml |-> twimlMessage(ackText), didAck |-> TRUE, startAsync |-> TRUE]

\* Mutant: the continuation lets a backend error escape.
AsyncReply_NoCatch(o) ==
    IF o.ok THEN [threw |-> FALSE, reply |-> ReplyBody(o.reply)]
    ELSE [threw |-> TRUE, reply |-> <<>>]
\* sms.mjs:124-132  the continuation's reply: the normalized text of the
\* call it awaited, or the apology when that call rejected.
AsyncReply(o) ==
    IF o.ok THEN [threw |-> FALSE, reply |-> ReplyBody(o.reply)]
    ELSE [threw |-> FALSE, reply |-> ApologyText]

\* One call of deps.openclawReply: not made, in flight, or settled with o.
NoCall == [state |-> "none", outcome |-> None]
InFlight == [state |-> "running", outcome |-> None]
SettledWith(o) == [state |-> "settled", outcome |-> o]

\* sms.mjs:123-126  startAsync() runs up to its first await: it calls
\* deps.openclawReply.
startAsync(s) ==
    [s EXCEPT !.invoked = @ + 1, !.second = InFlight, !.cont = "backend"]

\* Mutant: the continuation is returned but never run.
Respond_NotRun(s, result) == [s EXCEPT !.pc = "returned", !.result = result]

\* http-server.mjs:267-272  the /sms handler answers with the result's
\* TwiML and runs the continuation when there is one.
Respond(s, result) ==
    LET r == [s EXCEPT !.pc = "returned", !.result = result]
    IN IF result.startAsync THEN startAsync(r) ELSE r

\* http-server.mjs:238-265 with sms.mjs:68-110  POST /sms up to the await of
\* the fast path, or to the Unauthorized answer.
handleIncomingSms(allowFrom, from, configured) ==
    /\ Cardinality(DOMAIN sms) < MaxSms
    /\ \E id \in {Cardinality(DOMAIN sms) + 1} :
       \E s \in {[from |-> from, allowed |-> isAllowedSender(allowFrom, from),
                  configured |-> configured, pc |-> "racing", invoked |-> 0,
                  first |-> NoCall, second |-> NoCall, result |-> None,
                  cont |-> "none", sent |-> <<>>]} :
          sms' = MapSet(sms, id,
                        IF s.allowed
                        THEN [s EXCEPT !.invoked = 1, !.first = InFlight]
                        ELSE Respond(s, UnauthorizedResult))

\* POST /sms with rate limiting disabled (http-server.mjs:238-265).
SmsReceive(allowFrom, from, configured) ==
    /\ handleIncomingSms(allowFrom, from, configured)
    /\ UNCHANGED <<regVars, semVars, call, confVars, histVars, reqVars, drain, rl, http>>

\* sms.mjs:110-120  the backend call settles before the timer: a reply is
\* returned inline, a rejection falls through to the acknowledgement.
FastSettles(id, o) ==
    /\ MapHas(sms, id) /\ sms[id].pc = "racing"
    /\ \E s \in {[sms[id] EXCEPT !.first = SettledWith(o)]} :
          sms' = [sms EXCEPT ![id] =
                     IF o.ok THEN Respond(s, FastResult(o.reply))
                     ELSE Respond(s, AckResult)]
    /\ UNCHANGED <<regVars, semVars, call, confVars, histVars, reqVars, drain, rl, http>>

\* sms.mjs:52-60, :118-151  the timer fires first: withTimeout rejects, the
\* handler acknowledges; the call it raced against stays in flight.
FastTimeout(id) ==
    /\ MapHas(sms, id) /\ sms[id].pc = "racing"
    /\ sms' = [sms EXCEPT ![id] = Respond(@, AckResult)]
    /\ UNCHANGED <<regVars, semVars, call, confVars, histVars, reqVars, drain, rl, http>>

\* sms.mjs:53-54  the call that lost the race settles; nothing awaits it.
FirstSettlesLate(id, o) ==
    /\ MapHas(sms, id) /\ sms[id].pc = "returned"
    /\ sms[id].first.state = "running"
    /\ sms' = [sms EXCEPT ![id].first = SettledWith(o)]
    /\ UNCHANGED <<regVars, semVars, call, confVars, histVars, reqVars, drain, rl, http>>

\* Mutant: the reply is sent without looking at deps.twilioSendSms.
AsyncSettles_NoSendCheck(id, o) ==
    /\ MapHas(sms, id) /\ sms[id].cont = "backend"
    /\ \E r \in {AsyncReply(o)} :
          sms' = [sms EXCEPT
                    ![id].second = SettledWith(o),
                    ![id].cont = "sending",
                    ![id].sent = Append(@, [to |-> sms[id].from, body |-> r.reply,
                                            status |-> "pending"])]
    /\ UNCHANGED <<regVars, semVars, call, confVars, histVars, reqVars, drain, rl, http>>

\* sms.mjs:126-144  the call the continuation awaits settles; the reply is
\* sent when twilioSendSms is configured.
AsyncSettles(id, o) ==
    /\ MapHas(sms, id) /\ sms[id].cont = "backend"
    /\ \E r \in {AsyncReply(o)} :
          sms' = [sms EXCEPT
                    ![id].second = SettledWith(o),
                    ![id].cont = IF r.threw THEN "rejected"
                                 ELSE IF sms[id].configured THEN "sending"
                                 ELSE "resolved",
                    ![id].sent = IF ~r.threw /\ sms[id].configured
                                 THEN Append(@, [to |-> sms[id].from, body |-> r.reply,
                                                 status |-> "pending"])
                                 ELSE @]
    /\ UNCHANGED <<regVars, semVars, call, confVars, histVars, reqVars, drain, rl, http>>

\* sms.mjs:139-144  twilioSendSms settles; a failure is caught and logged,
\* and the continuation returns.
SendSettles(id, ok) ==
    /\ MapHas(sms, id) /\ sms[id].cont = "sending"
    /\ sms' = [sms EXCEPT ![id].cont = "resolved",
                          ![id].sent[Len(sms[id].sent)].status =
                              IF ok THEN "ok" ELSE "failed"]
    /\ UNCHANGED <<regVars, semVars, call, confVars, histVars, reqVars, drain, rl, http>>

SmsNext ==
    \/ \E a \in AllowFromInputs, f \in SmsFroms, c \in BOOLEAN : SmsReceive(a, f, c)
    \/ \E id \in 1..MaxSms, o \in SmsReplies : FastSettles(id, o)
    \/ \E id \in 1..MaxSms : FastTimeout(id)
    \/ \E id \in 1..MaxSms, o \in SmsReplies : FirstSettlesLate(id, o)
    \/ \E id \in 1..MaxSms, o \in SmsReplies : AsyncSettles(id, o)
    \/ \E id \in 1..MaxSms, ok \in BOOLEAN : SendSettles(id, ok)

SmsInit == InitWith({1}) /\ ~apiMode
SmsSpec == SmsInit /\ [][SmsNext]_vars

\* C12: for each inbound SMS from an allowed sender the backend is invoked
\* exactly once, and what the continuation delivers after a fast-path
\* timeout is the result (or error) of that same call.
C12_Original ==
    \A id \in DOMAIN sms :
       sms[id].allowed =>
          /\ sms[id].invoked = 1
          /\ sms[id].cont \in {"sending", "resolved"} =>
                /\ sms[id].first.state = "settled"
                /\ \A i \in 1..Len(sms[id].sent) :
                      sms[id].sent[i].body = AsyncReply(sms[id].first.outcome).reply

\* handleIncomingSms has returned for message id.
SmsReturned(id) == MapHas(sms, id) /\ sms[id].pc = "returned"

C14_SmsErrorsAbsorbed ==
    \A id \in DOMAIN sms :
       sms[id].allowed =>
          /\ sms[id].pc \in {"racing", "returned"}
          /\ sms[id].cont \in {"none", "backend", "sending", "resolved"}
          /\ (SmsReturned(id) /\ sms[id].first.state = "settled"
                /\ ~sms[id].first.outcome.ok) => sms[id].result.didAck
          /\ sms[id].second.state = "settled" =>
                sms[id].cont \in {"sending", "resolved"}
          /\ (sms[id].second.state = "settled" /\ ~sms[id].second.outcome.ok
                /\ sms[id].configured) =>
                /\ Len(sms[id].sent) = 1
                /\ sms[id].sent[1].body = ApologyText
          /\ \A i \in 1..Len(sms[id].sent) :
                sms[id].sent[i].status # "pending" => sms[id].cont = "resolved"

\* After a fast-path timeout the backend call of the continuation rejected,
\* the apology was sent, the send failed, and the continuation resolved.
C14_Witness ==
    \E id \in DOMAIN sms :
       /\ sms[id].allowed
       /\ sms[id].first.state = "running"
       /\ sms[id].second.state = "settled" /\ ~sms[id].second.outcome.ok
       /\ sms[id].sent = <<[to |-> sms[id].from, body |-> ApologyText,
                            status |-> "failed"]>>
       /\ sms[id].cont = "resolved"

\* --------------------------------- waitForVoiceDrain (voice-state.mjs:121-138)
\* The clock moves in steps of at most ClockMs.
ClockMs == 50
\* The turns created around one drain.
MaxDrainTurns == 2

\* The timeoutMs and pollMs arguments (part_003:118-136 passes 200/50,
\* 500/50 and 100/50).
DrainTimeouts == {0, 100}
DrainPolls == {0, 50, 150}

\* Math.min
Min(a, b) == IF a < b THEN a ELSE b

\* Mutant: turns that are done but still stored are counted too.
undone_CountsDone(reg) == Cardinality(DOMAIN reg.pending)
\* voice-state.mjs:131  [...pending.values()].filter((t) => !t.done).length
undone(reg) == Cardinality({k \in DOMAIN reg.pending : ~reg.pending[k].done})

\* Mutant: the sleep is not capped at the time remaining.
DrainWait_Uncapped(d, t) == d.pollMs
\* voice-state.mjs:133
DrainWait(d, t) == Min(d.pollMs, d.deadline - t)

\* Mutant: the loop gives up after its first sleep.
DrainLoop_OnePoll(d, reg, t) ==
    IF undone(reg) > 0 /\ t < d.deadline /\ DrainWait(d, t) > 0 /\ d.pc = "idle"
    THEN [d EXCEPT !.pc = "sleeping", !.wakeAt = t + DrainWait(d, t)]
    ELSE [d EXCEPT !.pc = "resolved", !.result = undone(reg), !.resolvedAt = t]

\* voice-state.mjs:132-137  one evaluation of the loop at time t: it arms a
\* timer and sleeps, or leaves the loop and returns undone().
DrainLoop(d, reg, t) ==
    IF undone(reg) > 0 /\ t < d.deadline /\ DrainWait(d, t) > 0
    THEN [d EXCEPT !.pc = "sleeping", !.wakeAt = t + DrainWait(d, t)]
    ELSE [d EXCEPT !.pc = "resolved", !.result = undone(reg), !.resolvedAt = t]

\* voice-state.mjs:129-134  waitForVoiceDrain(timeoutMs, pollMs) is called
\* and runs to its first await (or to its return).
DrainStart(timeoutMs, pollMs) ==
    /\ drain.pc = "idle"
    /\ drain' = DrainLoop([drain EXCEPT !.start = now, !.deadline = now + timeoutMs,
                                        !.pollMs = pollMs], Registry, now)
    /\ UNCHANGED <<regVars, semVars, call, confVars, histVars, reqVars, sms, rl, http>>

\* voice-state.mjs:134  the timer has fired; the loop is evaluated again.
DrainWake ==
    /\ drain.pc = "sleeping"
    /\ now >= drain.wakeAt
    /\ drain' = DrainLoop(drain, Registry, now)
    /\ UNCHANGED <<regVars, semVars, call, confVars, histVars, reqVars, sms, rl, http>>

\* Date.now() moves on: up to the armed timer while the drain sleeps, and
\* up to MaxTicks * ClockMs before the drain is called.
DrainClock ==
    /\ IF drain.pc = "sleeping"
       THEN now < drain.wakeAt /\ now' = Min(now + ClockMs, drain.wakeAt)
       ELSE drain.pc = "idle" /\ now < MaxTicks * ClockMs /\ now' = now + ClockMs
    /\ UNCHANGED <<pending, latestByCall, nextId, lastCreated, lastCall>>
    /\ UNCHANGED <<confVars, extVars, semVars, call, histVars>>

\* The registry calls made around a drain (part_003:125-126, :112): turns
\* are created, stored turns are completed and deleted.
DrainCreate(callSid) ==
    /\ nextId <= MaxDrainTurns
    /\ \E f \in ApiFroms, s \in ApiSaid : ApiCreate(callSid, f, s)
DrainComplete(key) ==
    /\ MapHas(pending, key) /\ ~pending[key].done
    /\ ApiComplete(key, <<"a">>)
DrainDelete(key) == MapHas(pending, key) /\ ApiDelete(key)

DrainNext ==
    \/ \E c \in CallSids : DrainCreate(c)
    \/ \E k \in Keys : DrainComplete(k)
    \/ \E k \in Keys : DrainDelete(k)
    \/ \E t \in DrainTimeouts, p \in DrainPolls : DrainStart(t, p)
    \/ DrainWake
    \/ DrainClock

DrainInit == InitWith({1}) /\ ~apiMode
DrainSpec == DrainInit /\ [][DrainNext]_vars

\* The stored turns that are not done.
NotDone(p) == {k \in DOMAIN p : ~p[k].done}

\* C15: waitForVoiceDrain resolves with the number of stored turns that
\* are not done at the moment it returns: 0 when every stored turn is done
\* (or was deleted); turns that are done but still stored are not counted,
\* and the drain goes (back) to sleep only while a stored turn is not done.
C15_DrainResult ==
    [][/\ (drain.pc # "resolved" /\ drain'.pc = "resolved") =>
             /\ drain'.result = Cardinality(NotDone(pending'))
             /\ drain'.resolvedAt = now'
       /\ (drain' # drain /\ drain'.pc = "sleeping") => NotDone(pending) # {}
       /\ (drain' # drain /\ NotDone(pending) = {}) =>
             drain'.pc = "resolved" /\ drain'.result = 0]_vars

\* The drain slept, the turn it waited for was completed, and it resolved
\* with 0 before the deadline although that turn is still stored.
C15_Witness ==
    /\ drain.pc = "resolved" /\ drain.result = 0
    /\ drain.start < drain.resolvedAt /\ drain.resolvedAt < drain.deadline
    /\ \E k \in DOMAIN pending : pending[k].done

\* Timers fire and the clock moves on; nothing else is assumed: no turn
\* need ever complete.
DrainFairSpec ==
    /\ DrainInit /\ [][DrainNext]_vars
    /\ WF_vars(DrainClock) /\ WF_vars(DrainWake)

\* C16: waitForVoiceDrain always resolves, no later than start + timeoutMs
\* (every sleep ends at or before the deadline), whether or not a turn
\* completes; its steps change neither the registry nor a backend call.
C16_DrainDeadline ==
    /\ (drain.pc = "sleeping") ~> (drain.pc = "resolved")
    /\ [](drain.pc = "sleeping" =>
             /\ drain.wakeAt <= drain.deadline /\ now <= drain.wakeAt)
    /\ [](drain.pc = "resolved" => drain.resolvedAt <= drain.deadline)
    /\ [][drain' # drain =>
             UNCHANGED <<pending, latestByCall, call, active, queue>>]_vars

\* A drain whose poll interval is longer than its timeout slept until the
\* deadline and resolved there with a turn still not done.
C16_Witness ==
    /\ drain.pc = "resolved" /\ drain.result > 0
    /\ drain.start < drain.deadline
    /\ drain.pollMs > drain.deadline - drain.start
    /\ drain.resolvedAt = drain.deadline

\* --------------------------------------------------------- the rate limiter
\* createRateLimiter is imported from lib/utils.mjs by part_001:6 and is not
\* in lib/utils.mjs; it is modelled from its contract (spec.md 4.2) and
\* from the tests of part_001:177-214.
MaxChecks == 4

\* The keys checked, and the arguments of createRateLimiter (part_001:179-208
\* passes max 3, 2, 1 and 0).
RateKeys == {"x", "y"}
RateMaxes == {-1, 0, 1, 2}
RateWindows == {100}

\* The timestamps of s that are not older than cutoff.
RECURSIVE Evict(_, _)
Evict(s, cutoff) ==
    IF s = <<>> THEN <<>>
    ELSE IF Head(s) < cutoff THEN Evict(Tail(s), cutoff)
    ELSE <<Head(s)>> \o Evict(Tail(s), cutoff)

\* The timestamps recorded for key.
HitsOf(r, key) == IF MapHas(r.hits, key) THEN r.hits[key] ELSE <<>>

\* Mutant: a denied request is recorded as well.
check_RecordsDenied(r, key, t) ==
    IF r.max <= 0 THEN [admitted |-> TRUE, hits |-> r.hits]
    ELSE LET kept == Evict(HitsOf(r, key), t - r.windowMs)
         IN [admitted |-> Len(kept) < r.max,
             hits |-> MapSet(r.hits, key, Append(kept, t))]

\* Mutant: max <= 0 is treated by the general algorithm.
check_NoBypass(r, key, t) ==
    LET kept == Evict(HitsOf(r, key), t - r.windowMs)
    IN IF Len(kept) < r.max
       THEN [admitted |-> TRUE, hits |-> MapSet(r.hits, key, Append(kept, t))]
       ELSE [admitted |-> FALSE, hits |-> MapSet(r.hits, key, kept)]

\* check(key) at time t: the verdict and the timestamps kept afterwards.
check(r, key, t) ==
    IF r.max <= 0 THEN [admitted |-> TRUE, hits |-> r.hits]
    ELSE LET kept == Evict(HitsOf(r, key), t - r.windowMs)
         IN IF Len(kept) < r.max
            THEN [admitted |-> TRUE, hits |-> MapSet(r.hits, key, Append(kept, t))]
            ELSE [admitted |-> FALSE, hits |-> MapSet(r.hits, key, kept)]

\* The limiter after check(key) at time t, the check appended to its log.
Checked(r, key, t) ==
    LET c == check(r, key, t)
    IN [r EXCEPT !.hits = c.hits,
                 !.log = Append(@, [key |-> key, at |-> t, admitted |-> c.admitted])]

\* rl.check(key) is called.
RateCheck(key) ==
    /\ Len(rl.log) < MaxChecks
    /\ rl' = Checked(rl, key, now)
    /\ UNCHANGED <<regVars, semVars, call, confVars, histVars, reqVars, sms, drain, http>>

\* Date.now() moves on.
RateClock ==
    /\ now < MaxChecks * ClockMs
    /\ now' = now + ClockMs
    /\ UNCHANGED <<pending, latestByCall, nextId, lastCreated, lastCall>>
    /\ UNCHANGED <<confVars, extVars, semVars, call, histVars>>

RateNext ==
    \/ \E k \in RateKeys : RateCheck(k)
    \/ RateClock

RateInit ==
    /\ InitFor({1}, {createRateLimiter(m, w) : m \in RateMaxes, w \in RateWindows})
    /\ ~apiMode
RateSpec == RateInit /\ [][RateNext]_vars

\* The last n elements of s.
Suffix(s, n) == SubSeq(s, Len(s) - n + 1, Len(s))

\* The number of timestamps of s at or after cutoff.
CountFrom(s, cutoff) == Cardinality({i \in 1..Len(s) : s[i] >= cutoff})

\* C17: with max > 0, check(key) at time now first drops the key's
\* timestamps older than now - windowMs, then admits and records now iff
\* fewer than max remain, and otherwise denies without recording; so a check
\* is admitted iff fewer than max checks of the same key were admitted in
\* the windowMs before it: denied checks do not count, and admissions older
\* than the window do not count any more.  Other keys are left alone.
C17_SlidingWindow ==
    /\ [](rl.max > 0 =>
            /\ \A i \in 1..Len(rl.log) :
                  rl.log[i].admitted <=>
                     Cardinality({j \in 1..(i - 1) :
                                     /\ rl.log[j].key = rl.log[i].key
                                     /\ rl.log[j].admitted
                                     /\ rl.log[j].at >= rl.log[i].at - rl.windowMs})
                        < rl.max
            /\ \A k \in DOMAIN rl.hits : Len(rl.hits[k]) <= rl.max)
    /\ [][(rl.max > 0 /\ Len(rl'.log) = Len(rl.log) + 1) =>
             LET e == rl'.log[Len(rl'.log)]
                 old == HitsOf(rl, e.key)
                 n == CountFrom(old, now - rl.windowMs)
             IN /\ e.at = now
                /\ e.admitted <=> n < rl.max
                /\ HitsOf(rl', e.key) = IF n < rl.max
                                        THEN Append(Suffix(old, n), now)
                                        ELSE Suffix(old, n)
                /\ \A k \in RateKeys \ {e.key} : HitsOf(rl', k) = HitsOf(rl, k)]_vars

\* With max = 1 a key was admitted, then denied inside the window, and
\* admitted again more than windowMs after the first admission.
C17_Witness ==
    /\ rl.max = 1
    /\ \E i, j, k \in 1..Len(rl.log) :
          /\ i < j /\ j < k
          /\ rl.log[i].key = rl.log[j].key /\ rl.log[j].key = rl.log[k].key
          /\ rl.log[i].admitted /\ ~rl.log[j].admitted /\ rl.log[k].admitted
          /\ rl.log[j].at > rl.log[i].at
          /\ rl.log[k].at > rl.log[i].at + rl.windowMs

\* C18: with max <= 0 every check of every key is admitted, however many
\* are made, and no timestamp is ever recorded.
C18_RateLimitBypass ==
    rl.max <= 0 =>
       /\ \A i \in 1..Len(rl.log) : rl.log[i].admitted
       /\ \A k \in RateKeys : HitsOf(rl, k) = <<>>
       /\ rl.hits = EmptyMap

\* A disabled limiter has admitted MaxChecks checks, of both keys, some at
\* the same instant.
C18_Witness ==
    /\ rl.max <= 0
    /\ Len(rl.log) >= MaxChecks
    /\ \A k \in RateKeys : \E i \in 1..Len(rl.log) : rl.log[i].key = k
    /\ \E i \in 1..(Len(rl.log) - 1) :
          rl.log[i].key = rl.log[i + 1].key /\ rl.log[i].at = rl.log[i + 1].at

\* ------------------------------------- rate limiting in the HTTP handlers
\* The integration tests of part_001:321-466 run a server that limits /voice
\* and /sms per number; http-server.mjs has no such step.  It is modelled
\* from spec.md 5 (signature check, then rate limiter, then the handler) and
\* from those tests.

\* part_001:429, :456 match /Too many requests/i; the rest of the text is
\* not known.
TooManyText == <<"T", "o", "o", " ", "m", "a", "n", "y", " ", "r", "e", "q", "u", "e", "s", "t", "s">>
\* http-server.mjs:106
NotAuthorizedText == <<"S", "o", "r", "r", "y", ",", " ", "t", "h", "i", "s", " ", "n", "u", "m", "b", "e", "r", " ", "i", "s", " ", "n", "o", "t", " ", "a", "u", "t", "h", "o", "r", "i", "z", "e", "d", ".">>
\* config.mjs:127  GREETING_TEXT, by its first words.
GreetingText == <<"Y", "o", "u", " ", "a", "r", "e", " ", "c", "o", "n", "n", "e", "c", "t", "e", "d", ".">>

\* twiml.mjs:29-34 and :49-57, by verb and text.
sayAndHangup(text) == [verb |-> "SayHangup", text |-> text]
greetingWithGather(greeting) == [verb |-> "SayGather", text |-> greeting]

\* http-server.mjs:93-96 (and :247-250)  403 Forbidden.
Forbidden(route) == [route |-> route, status |-> 403, twiml |-> None]

\* Mutant: a rate-limited request is answered with an HTTP error status.
Limited_ErrorStatus(route) ==
    [route |-> route, status |-> 429,
     twiml |-> IF route = "/voice" THEN sayAndHangup(TooManyText)
               ELSE twimlMessage(TooManyText)]
\* part_001:425-430, :452-457  the answer to a rate-limited request.
Limited(route) ==
    [route |-> route, status |-> 200,
     twiml |-> IF route = "/voice" THEN sayAndHangup(TooManyText)
               ELSE twimlMessage(TooManyText)]

\* http-server.mjs:97-112  the answer of /voice to an admitted request.
VoiceAnswer(allowFrom, from) ==
    [route |-> "/voice", status |-> 200,
     twiml |-> IF allowFrom # {} /\ fromNormalized(from) \notin allowFrom
               THEN sayAndHangup(NotAuthorizedText)
               ELSE greetingWithGather(GreetingText)]

\* Mutant: the limiter is consulted before the signature is checked.
Admission_LimitFirst(sigValid, r, key, t) ==
    LET c == Checked(r, key, t)
    IN IF ~sigValid THEN [verdict |-> "forbidden", rl |-> c]
       ELSE [verdict |-> IF c.log[Len(c.log)].admitted THEN "admitted" ELSE "limited",
             rl |-> c]
\* spec.md 5: the signature is checked before any other processing,
\* including rate limiting; then the caller's number is checked.
Admission(sigValid, r, key, t) ==
    IF ~sigValid THEN [verdict |-> "forbidden", rl |-> r]
    ELSE LET c == Checked(r, key, t)
         IN [verdict |-> IF c.log[Len(c.log)].admitted THEN "admitted" ELSE "limited",
             rl |-> c]

\* The From values and allowlists of the requests below (part_001:362 runs
\* with an empty allowlist).
LimitFroms == {<<"+", "1">>, <<"2">>}
LimitAllowFrom == {{}, {<<"+", "1">>}}

\* POST /voice (http-server.mjs:85-113) with the rate-limit step.
VoiceRequest(sigValid, allowFrom, from) ==
    /\ Len(rl.log) < MaxChecks
    /\ \E a \in {Admission(sigValid, rl, fromNormalized(from), now)} :
          /\ rl' = a.rl
          /\ http' = CASE a.verdict = "forbidden" -> Forbidden("/voice")
                       [] a.verdict = "limited" -> Limited("/voice")
                       [] OTHER -> VoiceAnswer(allowFrom, from)
    /\ UNCHANGED <<regVars, semVars, call, confVars, histVars, reqVars, sms, drain>>

\* POST /sms (http-server.mjs:238-273) with the rate-limit step; an
\* admitted message is answered when handleIncomingSms returns.
SmsRequest(sigValid, allowFrom, from, configured) ==
    /\ Len(rl.log) < MaxChecks
    /\ \E a \in {Admission(sigValid, rl, fromNormalized(from), now)} :
          /\ rl' = a.rl
          /\ IF a.verdict = "admitted"
             THEN handleIncomingSms(allowFrom, from, configured) /\ http' = http
             ELSE /\ sms' = sms
                  /\ http' = IF a.verdict = "forbidden" THEN Forbidden("/sms")
                             ELSE Limited("/sms")
    /\ UNCHANGED <<regVars, semVars, call, confVars, histVars, reqVars, drain>>

LimitNext ==
    \/ \E v \in BOOLEAN, a \in LimitAllowFrom, f \in LimitFroms : VoiceRequest(v, a, f)
    \/ \E v \in BOOLEAN, f \in LimitFroms : SmsRequest(v, {}, f, FALSE)
    \/ \E id \in 1..MaxSms, o \in SmsReplies : FastSettles(id, o)
    \/ \E id \in 1..MaxSms : FastTimeout(id)

LimitInit ==
    /\ InitFor({1}, {createRateLimiter(m, w) : m \in {1, 2}, w \in RateWindows})
    /\ ~apiMode
LimitSpec == LimitInit /\ [][LimitNext]_vars

\* The check made by the step, when the step made one.
CheckMade == Len(rl'.log) = Len(rl.log) + 1
LastCheck == rl'.log[Len(rl'.log)]

MaxRequests == 3
\* http-server.mjs:93-96, :124-127, :194-197, :247-250  checkSignature
\* fails: the request is answered 403 and the handler returns.
Refuse(route) ==
    /\ http' = Forbidden(route)
    /\ UNCHANGED <<regVars, semVars, call, confVars, histVars, reqVars, sms, drain, rl>>

\* POST /speech (http-server.mjs:116-183) with its 403 answer recorded.
SpeechRequest(sigValid, from, formCallSid, speechResult) ==
    IF Rejected(FALSE, sigValid)
    THEN Refuse("/speech")
    ELSE Speech(FALSE, sigValid, from, formCallSid, speechResult)

\* POST /speech-wait (http-server.mjs:186-235) with its 403 answer recorded.
SpeechWaitRequest(sigValid, key) ==
    IF Rejected(FALSE, sigValid)
    THEN Refuse("/speech-wait")
    ELSE SpeechWait(FALSE, sigValid, key)

\* The speech and the backend outcomes followed: what a refused request
\* leaves alone does not depend on their text.
AuthSpeech == {<<"h", "i">>}
AuthReplies == {o \in SmsReplies : o.reply = <<>>}

\* The turns created, messages received and limiter checks made so far.
Served == (nextId - 1) + Cardinality(DOMAIN sms) + Len(rl.log)

AuthNext ==
    \/ \E v \in BOOLEAN, f \in LimitFroms :
          (v => Served < MaxRequests) /\ VoiceRequest(v, {}, f)
    \/ \E v \in BOOLEAN, f \in LimitFroms :
          (v => Served < MaxRequests) /\ SmsRequest(v, {}, f, FALSE)
    \/ \E v \in BOOLEAN, s \in AuthSpeech :
          (v => Served < MaxRequests) /\ SpeechRequest(v, "+15550001111", "CA1", s)
    \/ \E v \in BOOLEAN, k \in Keys : SpeechWaitRequest(v, k)
    \/ \E id \in DOMAIN call : TaskSettles(id)
    \/ \E id \in 1..MaxSms, o \in AuthReplies : FastSettles(id, o)
    \/ \E id \in 1..MaxSms : FastTimeout(id)

AuthInit ==
    /\ InitFor({1}, {createRateLimiter(1, w) : w \in RateWindows})
    /\ ~apiMode
AuthSpec == AuthInit /\ [][AuthNext]_vars

AuthTokens == {<<>>, <<"t">>}
BaseUrls == {<<>>, <<"h">>}
\* req.url: the path with its query string.
ReqUrls == {<<"/", "w">>, <<"/", "w", "?", "k">>}
\* The form parameter names in sorted order, and the parsed forms.
ParamKeys == <<"a", "ab">>
ParamForms ==
    { [k \in {} |-> <<>>],
      [k \in {"a"} |-> <<"b">>],
      [k \in {"ab"} |-> <<>>],
      [k \in {"a", "ab"} |-> <<"c">>] }

\* signature-validation.test.mjs:48-51  the signed string: the URL followed
\* by each parameter name and value, the names in sorted order.
RECURSIVE SignedString(_, _, _)
SignedString(url, params, i) ==
    IF i > Len(ParamKeys) THEN url
    ELSE SignedString(IF ParamKeys[i] \in DOMAIN params
                      THEN url \o <<ParamKeys[i]>> \o params[ParamKeys[i]]
                      ELSE url,
                      params, i + 1)

\* signature-validation.test.mjs:47-53  HMAC-SHA1 of the signed string under
\* authToken, base64-encoded; the digest is kept as the pair it is computed
\* from (no two pairs collide).
computeSignature(authToken, url, params) ==
    [key |-> authToken, msg |-> SignedString(url, params, 1)]

\* The value of a missing x-twilio-signature header after || "".
EmptySignature == [key |-> <<>>, msg |-> <<>>]

\* twilio.mjs:18-20  Twilio.validateRequest compares the presented signature
\* with the one it computes.
validateWebhookSignature(authToken, signature, url, params) ==
    signature = computeSignature(authToken, url, params)

\* Mutant: the URL that is verified leaves out the query string.
checkSignature_PathOnly(a, req) ==
    IF a.authToken = <<>> \/ a.baseUrl = <<>> THEN TRUE
    ELSE validateWebhookSignature(a.authToken, req.signature,
                                  a.baseUrl \o SubSeq(req.url, 1, 2), req.params)

\* http-server.mjs:63-68
checkSignature(a, req) ==
    IF a.authToken = <<>> \/ a.baseUrl = <<>> THEN TRUE
    ELSE validateWebhookSignature(a.authToken, req.signature,
                                  a.baseUrl \o req.url, req.params)

\* What a sender signs: a URL and a form, under the secret it knows.
Signers ==
    [secret : {<<"t">>, <<"x">>}, url : {b \o u : b \in {<<"h">>}, u \in ReqUrls},
     params : ParamForms]
\* No signer: the request carries no signature header.
Unsigned == [secret |-> <<>>, url |-> <<>>, params |-> EmptyMap]

\* The requests received: a URL and a form, with the signature header of a
\* signer (who may have signed another URL or form) or with none.
Requests ==
    { [url |-> u, params |-> p, signer |-> s,
       signature |-> IF s = Unsigned THEN EmptySignature
                     ELSE computeSignature(s.secret, s.url, s.params)] :
      u \in ReqUrls, p \in ParamForms, s \in Signers \cup {Unsigned} }

\* http-server.mjs:29-44  createServer(config)
CreateServer(authToken, baseUrl) ==
    /\ ~auth.created
    /\ auth' = [auth EXCEPT !.created = TRUE, !.authToken = authToken,
                            !.baseUrl = baseUrl]
    /\ UNCHANGED <<coreVars, sms, drain, rl, http, body, discord>>

\* A handler calls checkSignature(req, parsedBody).
CheckSignature(req) ==
    /\ auth.created
    /\ auth' = [auth EXCEPT !.checked =
                   <<[req |-> req, accepted |-> checkSignature(auth, req)]>>]
    /\ UNCHANGED <<coreVars, sms, drain, rl, http, body, discord>>

SigNext ==
    \/ \E t \in AuthTokens, b \in BaseUrls : CreateServer(t, b)
    \/ \E r \in Requests : CheckSignature(r)

SigInit == InitWith({1}) /\ ~apiMode
SigSpec == SigInit /\ [][SigNext]_vars

\* The signer knew the server's secret and signed exactly the URL the
\* server sees (base URL, path and query string) and the form received.
SignedHere(a, req) ==
    /\ req.signer # Unsigned
    /\ req.signer.secret = a.authToken
    /\ req.signer.url = a.baseUrl \o req.url
    /\ req.signer.params = req.params

\* C21: checkSignature accepts every request when the auth token or the
\* public base URL is unset; with both set it accepts a request iff the
\* presented signature is the one computed from the token, the base URL
\* followed by the request URL with its query string, and the form: a
\* request signed so by a holder of the token is accepted, and a request
\* without signature, signed under another secret, or signed for another
\* query string is refused.
C21_SignatureCheck ==
    \A i \in 1..Len(auth.checked) :
       LET c == auth.checked[i]
           enabled == auth.authToken # <<>> /\ auth.baseUrl # <<>>
       IN /\ ~enabled => c.accepted
          /\ enabled =>
                /\ c.accepted <=>
                      c.req.signature =
                         computeSignature(auth.authToken, auth.baseUrl \o c.req.url,
                                          c.req.params)
                /\ SignedHere(auth, c.req) => c.accepted
                /\ c.req.signer = Unsigned => ~c.accepted
                /\ c.req.signer.secret # auth.authToken => ~c.accepted
                /\ (c.req.signer # Unsigned
                    /\ c.req.signer.url # auth.baseUrl \o c.req.url) => ~c.accepted

\* With both values configured, a request whose signature was made for the
\* same path without the query string was refused.
C21_Witness ==
    /\ auth.authToken # <<>> /\ auth.baseUrl # <<>>
    /\ \E i \in 1..Len(auth.checked) :
          /\ ~auth.checked[i].accepted
          /\ auth.checked[i].req.signer.secret = auth.authToken
          /\ auth.checked[i].req.signer.params = auth.checked[i].req.params
          /\ auth.checked[i].req.url = <<"/", "w", "?", "k">>
          /\ auth.checked[i].req.signer.url = auth.baseUrl \o <<"/", "w">>

\* ------------------------------------------------- request bodies (readBody)
\* Data events followed per request.
MaxChunks == 3
\* utils.mjs:45  maxBytes = 65536
DefaultMaxBytes == 65536
\* chunk.length of the data events.
ChunkLengths == {1, 65535, 65536}

\* utils.mjs:46-49  readBody(req, maxBytes) was called for a request to
\* route: nothing received, the promise pending.
readBodyStart(route) ==
    [pc |-> "reading", route |-> route, chunks |-> 0, total |-> 0,
     kept |-> 0, done |-> FALSE, ended |-> FALSE]

\* Mutant: a body of exactly maxBytes is rejected too.
readBodyData_AtLimit(b, len, maxBytes) ==
    IF b.done THEN b
    ELSE IF b.total + len >= maxBytes
    THEN [b EXCEPT !.total = @ + len, !.done = TRUE,
                   !.pc = IF b.pc = "reading" THEN "rejected413" ELSE @]
    ELSE [b EXCEPT !.total = @ + len, !.kept = @ + len]

\* utils.mjs:50-63  the data listener; kept is the length of the chunks
\* pushed.  A settled promise stays as it is.
readBodyData(b, len, maxBytes) ==
    IF b.done THEN b
    ELSE IF b.total + len > maxBytes
    THEN [b EXCEPT !.total = @ + len, !.done = TRUE,
                   !.pc = IF b.pc = "reading" THEN "rejected413" ELSE @]
    ELSE [b EXCEPT !.total = @ + len, !.kept = @ + len]

\* utils.mjs:64  the end listener
readBodyEnd(b) ==
    [b EXCEPT !.ended = TRUE,
              !.pc = IF ~b.done /\ b.pc = "reading" THEN "resolved" ELSE @]

\* utils.mjs:65  the error listener (the error has no statusCode)
readBodyError(b) ==
    [b EXCEPT !.ended = TRUE,
              !.pc = IF ~b.done /\ b.pc = "reading" THEN "rejected" ELSE @]

\* ------------------------------------------ the answers of the voice routes
\* twiml.mjs:39-44, :75-80, :85-90, :62-70  the TwiML documents by their
\* verbs; a redirect URL by its path and its key parameter.
SpeechUrl == [path |-> "/speech", key |-> None]
sayAndRedirect(text, url) == [verb |-> "SayRedirect", text |-> text, url |-> url]
thinkingRedirect(phrase, url) == [verb |-> "SayRedirect", text |-> phrase, url |-> url]
pauseAndRedirect(url) == [verb |-> "PauseRedirect", text |-> <<>>, url |-> url]
replyWithGather(text) == [verb |-> "SayGather", text |-> text, url |-> SpeechUrl]

\* http-server.mjs:180, :222  `/speech-wait?key=${encodeURIComponent(key)}`
WaitUrl(key) == [path |-> "/speech-wait", key |-> key]

\* config.mjs:83-94  getRandomThinkingPhrase()
ThinkingPhrases == {<<"H", "m", "m">>, <<"U", "m", "m">>}

\* http-server.mjs:91/:121/:191/:243  the catch of await readBody(req).
BodyRefused(route, statusCode) ==
    [route |-> route, status |-> statusCode, twiml |-> None]

\* A 200 answer with a TwiML document.
Ok(route, twiml) == [route |-> route, status |-> 200, twiml |-> twiml]
\* The 200 answer to a poll, with the key parameter of the poll's URL.
Polled(key, twiml) ==
    [route |-> "/speech-wait", status |-> 200, twiml |-> twiml, key |-> key]

\* http-server.mjs:198-234  the TwiML a poll for key answers with.
SpeechWaitAnswer(reg, key) ==
    LET out == SpeechWaitOutcome(reg, key)
    IN CASE out.kind = "notfound" -> sayAndHangup(OkayText)
         [] out.kind = "superseded" -> sayAndRedirect(OkayText, SpeechUrl)
         [] out.kind = "wait" -> pauseAndRedirect(WaitUrl(key))
         [] OTHER -> replyWithGather(out.text)

\* http-server.mjs:128-181  the TwiML POST /speech answers with; the turn
\* it creates takes the next token.
SpeechAnswer(from, formCallSid, phrase) ==
    IF ALLOW_FROM # {} /\ from # "" /\ from \notin ALLOW_FROM
    THEN sayAndHangup(NotAuthorizedText)
    ELSE thinkingRedirect(phrase, WaitUrl(MakeKey(NormCallSid(formCallSid), nextId)))

\* The requests the handlers are followed with: signed by the provider, or
\* without signature header.
HandledRequests ==
    {r \in Requests : /\ r.url = <<"/", "w", "?", "k">>
                      /\ r.params = [k \in {"a"} |-> <<"b">>]
                      /\ r.signer \in {Unsigned,
                                       [secret |-> <<"t">>, url |-> <<"h">> \o r.url,
                                        params |-> r.params]}}

\* http-server.mjs:74, :116-118, :186-188  a POST to route arrives and the
\* handler awaits readBody(req).
Arrive(route) ==
    /\ auth.created
    /\ body.pc = "idle" \/ body.ended
    /\ body' = readBodyStart(route)
    /\ UNCHANGED <<coreVars, sms, drain, rl, http, auth, discord>>

\* The request emits a data event; when readBody rejects, the handler's
\* catch answers with the error's status (http-server.mjs:119-122, :189-192).
ReqData(len) ==
    /\ body.pc \in {"reading", "rejected413"} /\ ~body.ended
    /\ body.chunks < MaxChunks
    /\ body' = [readBodyData(body, len, DefaultMaxBytes) EXCEPT !.chunks = @ + 1]
    /\ http' = IF body.pc = "reading" /\ body'.pc = "rejected413"
               THEN BodyRefused(body.route, 413) ELSE http
    /\ UNCHANGED <<coreVars, sms, drain, rl, auth, discord>>

\* The request emits an error event before its end.
ReqError ==
    /\ body.pc \in {"reading", "rejected413"} /\ ~body.ended
    /\ body' = readBodyError(body)
    /\ http' = IF body'.pc = "rejected" THEN BodyRefused(body.route, 500) ELSE http
    /\ UNCHANGED <<coreVars, sms, drain, rl, auth, discord>>

\* http-server.mjs:123-183, :193-235  the handler resumed with the body:
\* the form is parsed, the signature checked, and the route's work done.
Handle(route, req) ==
    /\ auth' = [auth EXCEPT !.checked =
                   <<[req |-> req, accepted |-> checkSignature(auth, req)]>>]
    /\ IF ~checkSignature(auth, req)
       THEN http' = Forbidden(route) /\ UNCHANGED coreVars
       ELSE IF route = "/speech"
       THEN \E ph \in ThinkingPhrases :
               /\ SpeechHandler(FALSE, TRUE, "+15550001111", "CA1", <<"h", "i">>)
               /\ http' = Ok(route, SpeechAnswer("+15550001111", "CA1", ph))
       ELSE \E k \in Keys :
               /\ SpeechWaitHandler(FALSE, TRUE, k)
               /\ http' = Polled(k, SpeechWaitAnswer(Registry, k))

\* The request emits its end event; a body that was read resumes the
\* handler.
ReqEnd ==
    /\ body.pc \in {"reading", "rejected413"} /\ ~body.ended
    /\ body' = readBodyEnd(body)
    /\ IF body'.pc = "resolved"
       THEN \E req \in HandledRequests : Handle(body.route, req)
       ELSE UNCHANGED <<coreVars, http, auth>>
    /\ UNCHANGED <<sms, drain, rl, discord>>

BodyNext ==
    \/ CreateServer(<<"t">>, <<"h">>)
    \/ \E r \in {"/speech", "/speech-wait"} : Arrive(r)
    \/ \E n \in ChunkLengths : ReqData(n)
    \/ ReqEnd
    \/ ReqError
    \/ \E id \in DOMAIN call : TaskSettles(id)

BodyInit == InitWith({1}) /\ ~apiMode
BodySpec == BodyInit /\ [][BodyNext]_vars

\* C22: readBody rejects with status 413 at the data event that takes the
\* accumulated length above maxBytes, and not before (a body of exactly
\* maxBytes is read); after that the chunks of the request are discarded
\* and its promise never resolves; the handler answers 413 at that step,
\* and neither then nor later in the request does it check the signature,
\* create, complete or delete a turn, or start a backend call.
C22_BodyTooLarge ==
    /\ [](/\ body.done <=> body.pc = "rejected413"
          /\ body.pc = "rejected413" =>
                body.total > DefaultMaxBytes /\ body.kept <= DefaultMaxBytes
          /\ body.pc = "resolved" =>
                body.total = body.kept /\ body.total <= DefaultMaxBytes)
    /\ [][body'.chunks = body.chunks + 1 =>
             /\ (~body.done /\ body'.total > DefaultMaxBytes) =>
                    /\ body'.pc = "rejected413"
                    /\ http' = [route |-> body.route, status |-> 413, twiml |-> None]
             /\ body'.total <= DefaultMaxBytes =>
                    body'.pc = "reading" /\ body'.kept = body'.total /\ http' = http
             /\ body.done =>
                    body' = [body EXCEPT !.chunks = @ + 1] /\ http' = http]_vars
    /\ [][body.pc = "rejected413" =>
             \/ body'.pc = "rejected413" /\ body'.route = body.route
             \/ body.ended /\ body'.pc = "reading" /\ body'.total = 0]_vars
    /\ [][(body'.pc = "rejected413" /\ body' # body) =>
             UNCHANGED <<pending, latestByCall, nextId, lastCreated, call, active,
                         queue, completed, delivered, auth>>]_vars

\* With a turn waiting for its backend call, a /speech request was answered
\* 413 when its body went one byte over the limit; a later chunk was
\* discarded and the request ended.
C22_Witness ==
    /\ body.pc = "rejected413" /\ body.route = "/speech" /\ body.ended
    /\ body.total = DefaultMaxBytes + 1
    /\ body.chunks = MaxChunks
    /\ http = [route |-> "/speech", status |-> 413, twiml |-> None]
    /\ \E k \in DOMAIN pending : ~pending[k].done

\* ------------------------------------------ utterances and polls, answered
\* POST /speech from an allowed caller, with its answer.
Utter(from, formCallSid, speechResult, phrase) ==
    /\ SpeechHandler(FALSE, TRUE, from, formCallSid, speechResult)
    /\ http' = Ok("/speech", SpeechAnswer(from, formCallSid, phrase))
    /\ UNCHANGED <<sms, drain, rl, reqVars>>

\* POST /speech-wait?key=..., with its answer.
Poll(key) ==
    /\ SpeechWaitHandler(FALSE, TRUE, key)
    /\ http' = Polled(key, SpeechWaitAnswer(Registry, key))
    /\ UNCHANGED <<sms, drain, rl, reqVars>>

PollNext ==
    \/ \E c \in FormCallSids :
          Utter("+15550001111", c, <<"h", "i">>, <<"H", "m", "m">>)
    \/ \E k \in Keys : Poll(k)
    \/ \E id \in DOMAIN call : TaskSettles(id)

PollInit == InitWith({1}) /\ ~apiMode
PollSpec == PollInit /\ [][PollNext]_vars

\* POST /speech created a turn under key.
Created(key) == MapHas(call, key.turnId) /\ call[key.turnId].key = key

\* The caller of key's call spoke again after key was created, and the
\* reply for key was not ready then (its task has not completed it since).
SpokeAgain(key) ==
    /\ Created(key)
    /\ completed[key.turnId] = <<>>
    /\ \E id \in DOMAIN call : id > key.turnId /\ call[id].key.callSid = key.callSid

SweepNext ==
    \/ Utter("+15550001111", "CA1", <<"h", "i">>, <<"H", "m", "m">>)
    \/ \E k \in Keys : Poll(k)
    \/ \E id \in DOMAIN call : TaskSettles(id)
    \/ CleanupTimer
    \/ Tick

SweepSpec == PollInit /\ [][SweepNext]_vars

\* The histories of a key that is not stored.
NeverCreated(key) == ~Created(key)
WasDelivered(key) == Created(key) /\ delivered[key.turnId] # <<>>
WasSuperseded(key) ==
    /\ Created(key)
    /\ \E id \in DOMAIN call : id > key.turnId /\ call[id].key.callSid = key.callSid
WasSwept(key) ==
    /\ Created(key) /\ ~MapHas(pending, key)
    /\ ~WasDelivered(key) /\ ~WasSuperseded(key)

AwaitsReply(key) ==
    /\ MapHas(pending, key)
    /\ isLatestTurn(Registry, key, pending[key].callSid)
    /\ ~pending[key].done

\* C25: a poll for a turn that is the latest of its call and not done
\* leaves both registry maps (and so the turn), the deliveries and the
\* backend calls unchanged and answers 200 with a pause and a redirect to
\* /speech-wait with the same key; the same poll can be repeated with the
\* same result until the turn is completed, superseded or swept.
C25_WaitPollChangesNothing ==
    /\ [][\A k \in Keys :
            (AwaitsReply(k) /\ Poll(k)) =>
               /\ UNCHANGED <<pending, latestByCall, delivered, completed, call,
                              active, queue>>
               /\ http'.status = 200
               /\ http'.twiml.verb = "PauseRedirect"
               /\ http'.twiml.url = WaitUrl(k)
               /\ AwaitsReply(k)'
               /\ SpeechWaitOutcome(Registry, k)' =
                     [kind |-> "wait", text |-> <<>>, reg |-> Registry']]_vars
    /\ [][\A k \in Keys :
            (AwaitsReply(k) /\ ~AwaitsReply(k)') =>
               \/ MapHas(pending', k) /\ pending'[k].done
               \/ ~MapHas(pending', k) /\ (WasSuperseded(k)' \/ WasSwept(k)')]_vars

\* A turn whose backend call is running was polled after the clock had
\* moved on; the poll was answered with the pause and the redirect to the
\* same key, and the turn is still stored, latest and not done.
C25_Witness ==
    \E k \in Keys :
       /\ AwaitsReply(k)
       /\ call[k.turnId].pc = "running"
       /\ http = Polled(k, pauseAndRedirect(WaitUrl(k)))
       /\ pending[k].createdAt < now

\* ---------------------------------------------------------- turn lifecycle
\* The state of a key: 0 its token was not issued yet, 1 Pending (stored,
\* not done), 2 Completed (stored, done), 3 Deleted (its token was issued
\* and the key is not stored).
Phase(reg, issued, key) ==
    IF MapHas(reg.pending, key)
    THEN IF reg.pending[key].done THEN 2 ELSE 1
    ELSE IF key.turnId < issued THEN 3 ELSE 0

\* C26: with keys unique per exchange a key only moves forward through
\* Pending, Completed, Deleted: it is stored for the first time as Pending,
\* a turn with done = true never has done = false again, and a key that was
\* deleted is never stored again, whatever registry calls are made.
C26_LifecycleMonotone ==
    [][\A k \in Keys :
         LET p == Phase(Registry, nextId, k)
             q == Phase(Registry', nextId', k)
         IN /\ p <= q
            /\ (p = 0 /\ q # 0) => q \in {1, 3}
            /\ (p = 0 /\ q = 1) => lastCall'.op = "create" /\ lastCall'.key = k
            /\ p = 2 => q \in {2, 3}
            /\ p = 3 => q = 3]_vars

\* completeTurn was just called for a key that had been deleted, which
\* stays deleted, while another turn is completed and a third pending.
C26_Witness ==
    /\ lastCall.op = "complete"
    /\ Phase(Registry, nextId, lastCall.key) = 3
    /\ \E k \in Keys : Phase(Registry, nextId, k) = 2
    /\ \E k \in Keys : Phase(Registry, nextId, k) = 1

\* C27: completeTurn(key, reply) on a stored key sets done = true and
\* stores reply, or "Okay." when reply is empty, leaving everything else as
\* it was; in every reachable state a turn with done = true has a non-empty
\* reply and a turn with done = false has the empty reply.
C27_CompleteStoresReply ==
    /\ [](\A k \in DOMAIN pending : pending[k].done <=> pending[k].reply # <<>>)
    /\ [][\A k \in Keys, r \in ApiReplies :
            (ApiComplete(k, r) /\ MapHas(pending, k)) =>
               /\ pending' = [pending EXCEPT
                                ![k].done = TRUE,
                                ![k].reply = IF r = <<>> THEN OkayText ELSE r]
               /\ latestByCall' = latestByCall]_vars

\* completeTurn was just called with the empty reply for a stored turn,
\* which now holds the placeholder, next to a turn that is not done.
C27_Witness ==
    /\ lastCall.op = "complete"
    /\ MapHas(pending, lastCall.key)
    /\ pending[lastCall.key].done
    /\ pending[lastCall.key].reply = OkayText
    /\ \E k \in DOMAIN pending : ~pending[k].done /\ pending[k].reply = <<>>

\* C28: deleteTurn(key) on a stored key removes that turn and nothing else
\* from pending; when the key was the latest of its call it removes that
\* call's pointer, so that afterwards no key of the call is the latest; the
\* turns and pointers of all other calls stay as they were; on a key that
\* is not stored it returns with both maps unchanged.
C28_DeleteTurn ==
    /\ [](\A k \in Keys : ~MapHas(pending, k) => deleteTurn(Registry, k) = Registry)
    /\ [][\A k \in Keys :
            ApiDelete(k) =>
               IF MapHas(pending, k)
               THEN LET c == pending[k].callSid
                    IN /\ pending' = MapDelete(pending, k)
                       /\ isLatestTurn(Registry, k, c) =>
                             /\ ~MapHas(latestByCall', c)
                             /\ \A k2 \in Keys : ~isLatestTurn(Registry', k2, c)
                       /\ ~isLatestTurn(Registry, k, c) => latestByCall' = latestByCall
                       /\ \A d \in CallSids \ {c} :
                             /\ MapHas(latestByCall', d) <=> MapHas(latestByCall, d)
                             /\ MapHas(latestByCall, d) =>
                                   latestByCall'[d] = latestByCall[d]
                             /\ \A k2 \in StoredOf(Registry, d) :
                                   MapHas(pending', k2) /\ pending'[k2] = pending[k2]
               ELSE UNCHANGED <<pending, latestByCall>>]_vars

\* deleteTurn just removed the latest turn of one call and its pointer,
\* while another call keeps a completed turn with its pointer.
C28_Witness ==
    /\ lastCall.op = "delete"
    /\ lastCreated[lastCall.key.callSid] = lastCall.key
    /\ ~MapHas(pending, lastCall.key)
    /\ ~MapHas(latestByCall, lastCall.key.callSid)
    /\ \E d \in CallSids \ {lastCall.key.callSid} :
          /\ MapHas(latestByCall, d)
          /\ pending[latestByCall[d]].done

\* The stored turns cleanupStaleTurns(maxAgeMs) has to remove at time t.
StaleAt(reg, maxAgeMs, t) ==
    {k \in DOMAIN reg.pending : reg.pending[k].createdAt < t - maxAgeMs}

\* C29: cleanupStaleTurns(maxAgeMs) removes exactly the stored turns with
\* createdAt < now - maxAgeMs, done or not, and leaves every other turn as
\* it was (a turn of age exactly maxAgeMs stays); it removes a call's latest
\* pointer exactly when the pointer named a removed turn and leaves every
\* other pointer as it was.
C29_CleanupStaleTurns ==
    [][\A a \in CleanupAges :
         ApiCleanup(a) =>
            LET stale == StaleAt(Registry, a, now)
            IN /\ DOMAIN pending' = DOMAIN pending \ stale
               /\ \A k \in DOMAIN pending' : pending'[k] = pending[k]
               /\ \A k \in DOMAIN pending : pending[k].createdAt = now - a
                                               => MapHas(pending', k)
               /\ \A c \in DOMAIN latestByCall :
                     MapHas(latestByCall', c) <=> latestByCall[c] \notin stale
               /\ \A c \in DOMAIN latestByCall' :
                     MapHas(latestByCall, c) /\ latestByCall'[c] = latestByCall[c]]_vars

\* After the clock moved on, the sweep was the last registry call: the
\* turn created before the step is gone with its pointer, done or not,
\* while a turn created after it is stored with its pointer.
C29_Witness ==
    /\ lastCall.op = "cleanup"
    /\ now = TickMs
    /\ \E c \in CallSids :
          /\ lastCreated[c] # None
          /\ ~MapHas(pending, lastCreated[c])
          /\ ~MapHas(latestByCall, c)
          /\ \E d \in CallSids \ {c} :
                /\ MapHas(latestByCall, d)
                /\ pending[latestByCall[d]].createdAt = TickMs

\* ---------------------------------------------------------------------
\* The poll counter of /speech-wait and the filler phrases
\* (test/server.test.mjs:187-199, :236-309; the handler of lib/ answers
\* every pending poll with a pause and passes no counter on).
\* ---------------------------------------------------------------------

\* Polls a caller's turn is followed through.
MaxPoll == 3
\* The value of a poll parameter that is absent from the URL.
NoPoll == 0
PollParams == {NoPoll} \cup (1..MaxPoll)

\* test/config.test.mjs:119-135  two non-empty phrases.
POLL_FILLER_PHRASES == << <<"S", "t", "i", "l", "l">>, <<"A", "l", "m", "o", "s", "t">> >>

\* test/server.test.mjs:197, :269  /speech-wait?key=...&poll=n
FillerWaitUrl(key, poll) == [path |-> "/speech-wait", key |-> key, poll |-> poll]

\* the twiml tests: <Say>phrase</Say><Redirect>url</Redirect>, no <Pause>.
fillerAndRedirect(phrase, url) == [verb |-> "SayRedirect", text |-> phrase, url |-> url]

\* The counters the redirect of a poll without counter may carry: the tests
\* fix only the pause and the route of that answer.
NextPollsOf(poll) == IF poll = NoPoll THEN {NoPoll, 1} ELSE {poll + 1}

PendingAnswer_ThreeFillers(key, poll, next) ==
    IF poll \in 1..(Len(POLL_FILLER_PHRASES) + 1)
    THEN fillerAndRedirect(POLL_FILLER_PHRASES[IF poll > 2 THEN 2 ELSE poll],
                           FillerWaitUrl(key, next))
    ELSE pauseAndRedirect(FillerWaitUrl(key, next))

\* test/server.test.mjs:236-309  the answer to a poll of a turn that is
\* not done: a filler phrase for counters 1 and 2, a pause otherwise.
PendingAnswer(key, poll, next) ==
    IF poll \in 1..Len(POLL_FILLER_PHRASES)
    THEN fillerAndRedirect(POLL_FILLER_PHRASES[poll], FillerWaitUrl(key, next))
    ELSE pauseAndRedirect(FillerWaitUrl(key, next))

\* The TwiML a poll for key with counter poll answers with.
FillerWaitAnswer(reg, key, poll, next) ==
    IF SpeechWaitOutcome(reg, key).kind = "wait"
    THEN PendingAnswer(key, poll, next)
    ELSE SpeechWaitAnswer(reg, key)

FillerPolled(key, poll, twiml) ==
    [route |-> "/speech-wait", status |-> 200, twiml |-> twiml, key |-> key,
     poll |-> poll]

\* POST /speech: the redirect starts the counter at 1 (test/server.test.mjs:197).
FillerUtter(from, formCallSid, speechResult, phrase) ==
    /\ SpeechHandler(FALSE, TRUE, from, formCallSid, speechResult)
    /\ http' = Ok("/speech",
                  thinkingRedirect(phrase,
                     FillerWaitUrl(MakeKey(NormCallSid(formCallSid), nextId), 1)))
    /\ UNCHANGED <<sms, drain, rl, reqVars>>

\* POST /speech-wait?key=...&poll=..., with its answer.
FillerPoll(key, poll) ==
    /\ SpeechWaitHandler(FALSE, TRUE, key)
    /\ \E next \in NextPollsOf(poll) :
          http' = FillerPolled(key, poll, FillerWaitAnswer(Registry, key, poll, next))
    /\ UNCHANGED <<sms, drain, rl, reqVars>>

FillerNext ==
    \/ FillerUtter("+15550001111", "CA1", <<"h", "i">>, <<"H", "m", "m">>)
    \/ \E k \in Keys, n \in PollParams : FillerPoll(k, n)
    \/ \E id \in DOMAIN call : TaskSettles(id)

FillerSpec == PollInit /\ [][FillerNext]_vars

C33_SemaphoreBookkeeping ==
    /\ [](cap >= 1 =>
            /\ 0 <= active /\ active <= cap
            /\ active = Cardinality(Holders)
            /\ Len(queue) = Cardinality(Waiting)
            /\ queue # <<>> => active = cap)
    /\ [][\A id \in 1..MaxCalls :
            SemRelease(id) =>
               IF queue # <<>>
               THEN /\ active' = active
                    /\ queue' = Tail(queue)
                    /\ Holders' = (Holders \ {id}) \cup {Head(queue)}
               ELSE /\ active' = active - 1
                    /\ queue' = queue
                    /\ Holders' = Holders \ {id}]_vars

\* The slot is held by a task that received it directly from a releasing
\* holder, and another task still waits.
C33_Witness ==
    /\ cap >= 1 /\ active = cap /\ Len(queue) = 1
    /\ \E i \in DOMAIN call, j \in DOMAIN call :
          /\ call[i].pc = "returned"
          /\ call[j].waited /\ call[j].pc = "running"

\* Messages from the sender the allowlist names, with the
\* continuations on their own schedule: the backend call a continuation
\* awaits settles (the subprocess runs under a timeout, agent.mjs:169-186)
\* and so does the outbound send it awaits.
DeferredNext ==
    \/ \E f \in {<<"1">>, <<" ", "+", "1", " ">>}, c \in BOOLEAN :
          SmsReceive({<<"+", "1">>}, f, c)
    \/ \E id \in 1..MaxSms, o \in SmsReplies : FastSettles(id, o)
    \/ \E id \in 1..MaxSms : FastTimeout(id)
    \/ \E id \in 1..MaxSms, o \in SmsReplies : FirstSettlesLate(id, o)
    \/ \E id \in 1..MaxSms, o \in SmsReplies : AsyncSettles(id, o)
    \/ \E id \in 1..MaxSms, ok \in BOOLEAN : SendSettles(id, ok)

DeferredSpec ==
    /\ SmsInit
    /\ [][DeferredNext]_vars
    /\ \A id \in 1..MaxSms : WF_vars(\E o \in SmsReplies : AsyncSettles(id, o))
    /\ \A id \in 1..MaxSms : WF_vars(\E ok \in BOOLEAN : SendSettles(id, ok))

\* The continuation of message id was started.
Continued(id) == MapHas(sms, id) /\ sms[id].cont # "none"

\* C34: an acknowledged message's continuation invokes the backend; when
\* that call settles, one message is handed to the outbound sender if one
\* is configured, addressed to the From of the inbound message, its body the
\* normalized reply or, after a backend error, the apology, and none is
\* handed over otherwise; no message is ever sent but this one; whether the
\* send succeeds or fails, and without a sender at once, the continuation
\* resolves.
C34_DeferredDelivery ==
    /\ [](\A id \in DOMAIN sms :
            /\ Continued(id) <=> (sms[id].pc = "returned" /\ sms[id].result.didAck)
            /\ Continued(id) => sms[id].second.state # "none"
            /\ Len(sms[id].sent) <= 1
            /\ sms[id].sent # <<>> =>
                  /\ sms[id].configured
                  /\ sms[id].second.state = "settled"
                  /\ sms[id].sent[1].to = sms[id].from)
    /\ [][\A id \in DOMAIN sms :
            (sms[id].second.state = "running" /\ sms'[id].second.state = "settled") =>
               LET o == sms'[id].second.outcome
                   text == IF o.ok THEN ReplyBody(o.reply) ELSE ApologyText
               IN IF sms[id].configured
                  THEN /\ sms'[id].sent = <<[to |-> sms[id].from, body |-> text,
                                             status |-> "pending"]>>
                       /\ sms'[id].cont = "sending"
                  ELSE /\ sms'[id].sent = <<>>
                       /\ sms'[id].cont = "resolved"]_vars
    /\ [][\A id \in DOMAIN sms :
            (sms[id].cont = "sending" /\ sms'[id].cont # "sending") =>
               /\ sms'[id].cont = "resolved"
               /\ Len(sms'[id].sent) = 1
               /\ sms'[id].sent[1].body = sms[id].sent[1].body]_vars
    /\ \A id \in 1..MaxSms :
         Continued(id) ~> (MapHas(sms, id) /\ sms[id].cont = "resolved")

\* After the acknowledgement the continuation's backend call resolved with
\* a long reply, the shortened text was sent to the sender, and the
\* continuation resolved.
C34_Witness ==
    \E id \in DOMAIN sms :
       /\ SmsReturned(id) /\ sms[id].result.didAck
       /\ sms[id].second.state = "settled" /\ sms[id].second.outcome.ok
       /\ Len(sms[id].second.outcome.reply) > maxChars
       /\ sms[id].sent = <<[to |-> sms[id].from,
                            body |-> ReplyBody(sms[id].second.outcome.reply),
                            status |-> "ok"]>>
       /\ Len(sms[id].sent[1].body) = maxChars
       /\ sms[id].cont = "resolved"

\* ------------------------------------------- discordLog (agent.mjs:65-93)
\* discordLog calls made in one behaviour.
MaxNotes == 7
\* agent.mjs:17
DISCORD_MAX_IN_FLIGHT == 5

\* What becomes of a discordLog call: nothing is done without a channel
\* (agent.mjs:66); on the standalone path a call that finds the counter at
\* its cap is dropped (:76); otherwise the call is made, to resolve or
\* reject later.
Fate(d, api) ==
    IF ~d.channel THEN "off"
    ELSE IF ~api /\ d.inFlight >= DISCORD_MAX_IN_FLIGHT THEN "dropped"
    ELSE "made"

\* The discordLog calls made so far.
Notes(d) == d.running + d.dropped + d.resolved + d.rejected

\* Mutant: the cap test lets one call too many through.
discordLog_CapPlusOne(d, api) ==
    IF ~d.channel THEN d
    ELSE IF api THEN [d EXCEPT !.running = @ + 1]
    ELSE IF d.inFlight > DISCORD_MAX_IN_FLIGHT THEN [d EXCEPT !.dropped = @ + 1]
    ELSE [d EXCEPT !.inFlight = @ + 1, !.running = @ + 1]

\* agent.mjs:65-88  discordLog up to its await.
discordLog(d, api) ==
    IF ~d.channel THEN d
    ELSE IF api THEN [d EXCEPT !.running = @ + 1]
    ELSE IF d.inFlight >= DISCORD_MAX_IN_FLIGHT THEN [d EXCEPT !.dropped = @ + 1]
    ELSE [d EXCEPT !.inFlight = @ + 1, !.running = @ + 1]

\* Mutant: the counter is decremented after a successful call only.
discordSettled_NoFinally(d, api, ok) ==
    LET done == IF ok THEN [d EXCEPT !.running = @ - 1, !.resolved = @ + 1]
                ELSE [d EXCEPT !.running = @ - 1, !.rejected = @ + 1]
    IN IF api \/ ~ok THEN done ELSE [done EXCEPT !.inFlight = @ - 1]

\* agent.mjs:72, :89-91  the awaited call settles: the plugin path swallows
\* a rejection, the standalone path decrements the counter in its finally
\* block and lets the rejection through to the caller's catch, which logs
\* it (http-server.mjs:148-150, sms.mjs:91).
discordSettled(d, api, ok) ==
    LET done == IF ok THEN [d EXCEPT !.running = @ - 1, !.resolved = @ + 1]
                ELSE [d EXCEPT !.running = @ - 1, !.rejected = @ + 1]
    IN IF api THEN done ELSE [done EXCEPT !.inFlight = @ - 1]

\* discordLog({ text, run }) called directly (test/agent.test.mjs:18-47).
DiscordLog ==
    /\ Notes(discord) < MaxNotes
    /\ discord' = discordLog(discord, apiMode)
    /\ UNCHANGED <<coreVars, sms, drain, rl, http, body, auth>>

\* A notifier call settles.
DiscordSettles(ok) ==
    /\ discord.running > 0
    /\ discord' = discordSettled(discord, apiMode, ok)
    /\ UNCHANGED <<coreVars, sms, drain, rl, http, body, auth>>

DiscordNext ==
    \/ DiscordLog
    \/ \E ok \in BOOLEAN : DiscordSettles(ok)

\* The standalone path with DISCORD_LOG_CHANNEL_ID set.
DiscordInit ==
    InitServer({1}, {createRateLimiter(0, 0)}, {createNotifier(TRUE)}) /\ ~apiMode
DiscordSpec == DiscordInit /\ [][DiscordNext]_vars

\* C36: on the standalone path the counter discordInFlight equals the
\* number of notifier subprocesses that have not settled and is never
\* above DISCORD_MAX_IN_FLIGHT nor below 0; a call that finds the counter
\* at the cap starts nothing, is not kept for later and leaves the counter
\* alone; each settling, with success or with an error, decrements the
\* counter by one, so it is 0 when every call has settled.
C36_NotifierCap ==
    /\ [](/\ discord.inFlight = discord.running
          /\ 0 <= discord.inFlight /\ discord.inFlight <= DISCORD_MAX_IN_FLIGHT
          /\ discord.running = 0 => discord.inFlight = 0)
    /\ [][(discord.inFlight >= DISCORD_MAX_IN_FLIGHT /\ Notes(discord') > Notes(discord)) =>
             /\ discord'.dropped = discord.dropped + 1
             /\ discord' = [discord EXCEPT !.dropped = @ + 1]]_vars
    /\ [][(discord.inFlight < DISCORD_MAX_IN_FLIGHT /\ Notes(discord') > Notes(discord)) =>
             /\ discord'.inFlight = discord.inFlight + 1
             /\ discord'.dropped = discord.dropped]_vars
    /\ [][\A ok \in BOOLEAN :
             DiscordSettles(ok) => discord'.inFlight = discord.inFlight - 1]_vars
    /\ [][discord'.dropped >= discord.dropped]_vars

\* Seven calls were made: five ran, two found the counter at 5 and were
\* dropped; the five have settled, some with an error, and the counter is
\* back at 0.
C36_Witness ==
    /\ discord.dropped = 2
    /\ discord.resolved + discord.rejected = DISCORD_MAX_IN_FLIGHT
    /\ discord.rejected >= 1 /\ discord.resolved >= 1
    /\ discord.inFlight = 0

\* ------------------------------------------ the handlers with the notifier
\* Utterances, and messages, whose notifier calls are followed.
MaxNotified == 1

\* Mutant: the caller gives up when its log call was dropped.
Proceeds_UnlessDropped(fate) == fate # "dropped"

\* http-server.mjs:148-150, :168-170 and sms.mjs:90-92
\* void discordLog(...).catch(...): the call is not awaited and its
\* rejection is caught, so the caller goes on whatever becomes of it.
Proceeds(fate) == TRUE

\* A handler's discordLog call, made when wanted holds; fate is what
\* becomes of it.
Notify(wanted, fate) ==
    /\ fate = IF wanted THEN Fate(discord, apiMode) ELSE "none"
    /\ discord' = IF wanted THEN discordLog(discord, apiMode) ELSE discord

\* http-server.mjs:116-183  POST /speech from an allowed number: the
\* utterance is logged when it is not empty (:146-151), and so is the reply
\* "I did not catch that." of the task when it is (:158-171).
NotifiedSpeech(formCallSid, speechResult, phrase, fate) ==
    /\ nextId <= MaxNotified
    /\ Notify(TRUE, fate)
    /\ IF Proceeds(fate)
       THEN /\ SpeechHandler(FALSE, TRUE, "+15550001111", formCallSid, speechResult)
            /\ http' = Ok("/speech", SpeechAnswer("+15550001111", formCallSid, phrase))
       ELSE UNCHANGED <<coreVars, http>>
    /\ UNCHANGED <<sms, drain, rl, body, auth>>

\* agent.mjs:169-203 with http-server.mjs:155-174  as TaskSettles; the
\* reply (or the apology) is logged when it is not empty (:166-171) and
\* the turn is completed (:173).
NotifiedTaskSettles(id, fate) ==
    /\ MapHas(call, id) /\ call[id].pc = "running"
    /\ \E result \in BackendResults :
         \E g \in {Returned(Settled(Gateway, id, result), id)} :
            /\ SetGateway([g EXCEPT !.call[id].pc = "done"])
            /\ Notify(ReplyOrApology(result) # <<>>, fate)
            /\ IF Proceeds(fate)
               THEN TaskCompletes(id, call[id].key, result)
               ELSE UNCHANGED <<pending, latestByCall, completed>>
    /\ UNCHANGED <<now, nextId, lastCreated, lastCall>>
    /\ UNCHANGED <<confVars, delivered, sms, drain, rl, http, body, auth>>

\* http-server.mjs:238-265 with sms.mjs:68-110  POST /sms: the message is
\* logged (sms.mjs:89-92) before the allowlist is looked at.
NotifiedSms(allowFrom, from, fate) ==
    /\ Cardinality(DOMAIN sms) < MaxNotified
    /\ Notify(TRUE, fate)
    /\ IF Proceeds(fate)
       THEN handleIncomingSms(allowFrom, from, FALSE)
       ELSE sms' = sms
    /\ UNCHANGED <<coreVars, drain, rl, http, body, auth>>

NotifierFates == {"none", "off", "dropped", "made"}

NotifyNext ==
    \/ \E s \in {<<>>, <<"h", "i">>}, f \in NotifierFates :
          NotifiedSpeech("CA1", s, <<"H", "m", "m">>, f)
    \/ \E id \in DOMAIN call, f \in NotifierFates : NotifiedTaskSettles(id, f)
    \/ \E from \in {<<"+", "1">>, <<"+", "2">>}, f \in NotifierFates :
          NotifiedSms({<<"+", "1">>}, from, f)
    \/ \E id \in 1..MaxSms, o \in {r \in SmsReplies : r.reply = <<>>} :
          FastSettles(id, o)
    \/ \E id \in 1..MaxSms : FastTimeout(id)
    \/ \E ok \in BOOLEAN : DiscordSettles(ok)

\* The notifier calls of earlier requests that still run when the requests
\* followed arrive: none, or one less than the cap.
NotifyLoads == {0, DISCORD_MAX_IN_FLIGHT - 1}
Loaded(n) == [createNotifier(TRUE) EXCEPT !.inFlight = n, !.running = n]

\* The standalone server with DISCORD_LOG_CHANNEL_ID set.
NotifyInit ==
    /\ InitServer({1}, {createRateLimiter(0, 0)}, {Loaded(n) : n \in NotifyLoads})
    /\ ~apiMode
NotifySpec == NotifyInit /\ [][NotifyNext]_vars

\* What the callers of the server see and the registry keeps.
mainVars == <<coreVars, sms, http>>

\* C35: the main path is the same whatever becomes of a discordLog call.
\* A step in which a notifier call settles, with success or with an error,
\* changes nothing outside the notifier.  A request or a /speech task that
\* makes a notifier call, be it made or dropped, does what the same request or task does in the server without
\* notifier: /speech stores the turn and answers with the redirect to its
\* key, the task completes its turn with the backend's reply (or the
\* apology, or "Okay."), and /sms gives the result of handleIncomingSms.
C35_NotifierNonInterference ==
    /\ [][\A ok \in BOOLEAN : DiscordSettles(ok) => UNCHANGED mainVars]_vars
    /\ [][\A id \in DOMAIN call :
             (call[id].pc = "running" /\ call'[id].pc # "running") =>
                \E text \in {CompletionText(ReplyOrApology(call'[id].result))} :
                   /\ call'[id].pc = "done"
                   /\ completed'[id] = <<text>>
                   /\ Registry' = completeTurn(Registry, call[id].key, text)]_vars
    /\ [][nextId' # nextId =>
             \E k \in {MakeKey("CA1", nextId)} :
                /\ http' = Ok("/speech", thinkingRedirect(<<"H", "m", "m">>, WaitUrl(k)))
                /\ lastCreated'["CA1"] = k
                /\ MapHas(pending', k) /\ latestByCall'["CA1"] = k
                /\ MapHas(call', nextId)]_vars
    /\ [][\A id \in 1..MaxSms :
             (~MapHas(sms, id) /\ MapHas(sms', id)) =>
                IF sms'[id].allowed
                THEN sms'[id].pc = "racing" /\ sms'[id].first = InFlight
                ELSE sms'[id].pc = "returned" /\ sms'[id].result = UnauthorizedResult]_vars
    /\ [][Notes(discord') > Notes(discord) =>
             \/ \E s \in {<<>>, <<"h", "i">>} :
                   /\ SpeechHandler(FALSE, TRUE, "+15550001111", "CA1", s)
                   /\ http' = Ok("/speech", SpeechAnswer("+15550001111", "CA1", <<"H", "m", "m">>))
                   /\ sms' = sms
             \/ \E id \in DOMAIN call : TaskResumes(id) /\ UNCHANGED <<sms, http>>
             \/ \E from \in {<<"+", "1">>, <<"+", "2">>} :
                   /\ handleIncomingSms({<<"+", "1">>}, from, FALSE)
                   /\ UNCHANGED <<coreVars, http>>]_vars

\* A turn was completed with the backend's reply, and an SMS was answered
\* inline, in a behaviour in which notifier calls resolved, rejected and
\* were dropped.
C35_Witness ==
    /\ discord.resolved >= 1 /\ discord.rejected >= 1 /\ discord.dropped >= 1
    /\ \E id \in DOMAIN call :
          /\ call[id].pc = "done" /\ call[id].result # None /\ call[id].result.ok
          /\ completed[id] = <<CompletionText(call[id].result.reply)>>
    /\ \E id \in DOMAIN sms : sms[id].pc = "returned" /\ ~sms[id].result.didAck

\* C37: when the backend call of the fast path rejects before the timer
\* fires, handleIncomingSms returns the acknowledgement (not the apology,
\* and it does not reject) with didAck = true and a continuation, nothing
\* is sent yet, and the continuation, run by the /sms handler, makes the
\* second backend call of the message.
C37_FastErrorLikeTimeout ==
    [][\A id \in DOMAIN sms :
         (/\ sms[id].pc = "racing"
          /\ sms'[id].first.state = "settled"
          /\ ~sms'[id].first.outcome.ok) =>
            /\ sms'[id].pc = "returned"
            /\ sms'[id].result = AckResult
            /\ sms'[id].result.twiml = twimlMessage(ackText)
            /\ sms'[id].result.twiml # twimlMessage(ApologyText)
            /\ sms'[id].sent = <<>>
            /\ sms'[id].cont = "backend"
            /\ sms'[id].second = InFlight
            /\ sms[id].invoked = 1 /\ sms'[id].invoked = 2]_vars

\* The fast-path call rejected, the acknowledgement was returned, and the
\* second call, made by the continuation, resolved with a reply that was
\* sent.
C37_Witness ==
    \E id \in DOMAIN sms :
       /\ SmsReturned(id) /\ sms[id].result = AckResult
       /\ sms[id].first.state = "settled" /\ ~sms[id].first.outcome.ok
       /\ sms[id].invoked = 2
       /\ sms[id].second.state = "settled" /\ sms[id].second.outcome.ok
       /\ Len(sms[id].sent) = 1
       /\ sms[id].sent[1].body = ReplyBody(sms[id].second.outcome.reply)

\* C38: with pollMs >= 1, waitForVoiceDrain resolves with a positive count
\* only at or after its deadline start + timeoutMs; whenever its loop is
\* evaluated with a stored turn not done and the deadline ahead, it goes
\* (back) to sleep, for at least 1 ms and not past the deadline.
C38_DrainWaitsUntilDeadline ==
    [][(drain' # drain /\ drain'.pollMs >= 1) =>
          /\ (drain'.pc = "resolved" /\ drain'.result > 0) =>
                /\ now' >= drain'.deadline
                /\ drain'.resolvedAt >= drain'.deadline
          /\ (NotDone(pending) # {} /\ now < drain'.deadline) =>
                /\ drain'.pc = "sleeping"
                /\ drain'.wakeAt > now /\ drain'.wakeAt <= drain'.deadline]_vars

\* A drain with a poll interval shorter than its timeout was woken before
\* the deadline with the turn still not done, slept again, and resolved at
\* the deadline with a positive count.
C38_Witness ==
    /\ drain.pc = "resolved" /\ drain.result > 0
    /\ drain.pollMs >= 1 /\ drain.pollMs < drain.deadline - drain.start
    /\ drain.resolvedAt = drain.deadline

\* ---------------------------------------- OPENCLAW_MAX_CONCURRENT <= 0
\* config.mjs:58  Number(process.env.OPENCLAW_MAX_CONCURRENT || 10): the
\* strings "0" and "-1" give the capacities 0 and -1.
ZeroCapacities == {-1, 0}

\* The server with a capacity of 0 or less, and with one slot for
\* comparison.
ZeroInit == InitWith(ZeroCapacities \cup {1})
\* Utterances of one call, polls and the resumptions of the /speech tasks.
ZeroNext ==
    \/ \E s \in SpeechResults : Speech(FALSE, TRUE, "+15550001111", "CA1", s)
    \/ \E k \in Keys : SpeechWait(FALSE, TRUE, k)
    \/ \E id \in DOMAIN call : PrepDone(id)
    \/ \E id \in DOMAIN call : TaskPrepFails(id)
    \/ \E id \in DOMAIN call : TaskSettles(id)
ZeroSpec == ZeroInit /\ [][ZeroNext]_vars

\* The /speech task of token id, started for a non-empty utterance, has
\* completed its turn.
CompletedSpoken(id) ==
    MapHas(call, id) /\ call[id].pc = "done" /\ call[id].result # None

\* C39 (as amended): with a capacity of 0 or less no acquire is granted:
\* the counter stays 0, no call holds a slot or runs the backend, each call
\* that asked for a slot is in the queue and stays there, and no turn is
\* completed with a backend reply.  On the standalone path no turn with a
\* non-empty utterance is completed at all; on the plugin path such a turn
\* is completed exactly when openclawReply rejects in its preparations,
\* before it asks for a slot, and then with the apology.
C39_ZeroCapacity ==
    /\ [](cap <= 0 =>
            /\ active = 0 /\ Holders = {} /\ Running = {}
            /\ \A id \in DOMAIN call :
                  /\ call[id].pc = "waiting" <=> (\E n \in 1..Len(queue) : queue[n] = id)
                  /\ CompletedSpoken(id) =>
                        /\ apiMode
                        /\ call[id].result = PrepFailure
                        /\ completed[id] = <<ApologyText>>
            /\ ~apiMode => \A id \in DOMAIN call : ~CompletedSpoken(id))
    /\ [][cap <= 0 =>
            \A id \in DOMAIN call :
               call[id].pc = "waiting" =>
                  /\ call'[id].pc = "waiting"
                  /\ \E n \in 1..Len(queue) : queue[n] = id /\ queue'[n] = id]_vars

\* C39 as stated: with a capacity of 0 or less no backend call starts and
\* no voice turn with a non-empty utterance is ever completed.
C39_Original ==
    cap <= 0 =>
       /\ Running = {}
       /\ \A id \in DOMAIN call : ~CompletedSpoken(id)

\* Standalone path, capacity 0: the caller spoke twice, both backend calls
\* wait in the queue, a poll for the second turn is told to wait, and that
\* turn is still stored and not done.
C39_Witness ==
    /\ cap = 0 /\ ~apiMode
    /\ Len(queue) = 2
    /\ \A id \in DOMAIN call : call[id].pc = "waiting"
    /\ \E k \in DOMAIN pending :
          /\ k.turnId = 2 /\ ~pending[k].done
          /\ SpeechWaitOutcome(Registry, k).kind = "wait"

\* ------------------------------------- abandoned backend calls (no cancel)
\* The server's deps.openclawReply is the gateway itself
\* (http-server.mjs:248-252), so the calls of /sms and of /speech share the
\* semaphore.  The call of an inbound message is known by the message and
\* by its leg: 1 for the fast path (sms.mjs:110), 2 for the continuation
\* (sms.mjs:126).
SmsLeg(id, leg) == [sms |-> id, leg |-> leg]
SmsLegs == {SmsLeg(id, leg) : id \in 1..MaxSms, leg \in 1..2}

\* What the SMS handler sees of a settled gateway call.
SmsOutcome(result) == [ok |-> result.ok, reply |-> result.reply]

\* http-server.mjs:238-265 with sms.mjs:68-110 and agent.mjs:165-167
\* POST /sms: an allowed sender's message asks the gateway for a reply.
GatewaySms(allowFrom, from) ==
    /\ handleIncomingSms(allowFrom, from, FALSE)
    /\ IF isAllowedSender(allowFrom, from)
       THEN /\ SetGateway(StartOpenclawReply(Gateway, nextId,
                                             SmsLeg(Cardinality(DOMAIN sms) + 1, 1)))
            /\ nextId' = nextId + 1
       ELSE UNCHANGED <<semVars, call, nextId>>
    /\ UNCHANGED <<pending, latestByCall, now, lastCreated, lastCall>>
    /\ UNCHANGED <<confVars, histVars, reqVars, drain, rl, http>>

\* Mutant: the timer gives up the call it raced against, and its slot.
SmsTimer_Cancels(id) ==
    /\ MapHas(sms, id) /\ sms[id].pc = "racing"
    /\ sms' = [sms EXCEPT ![id] = Respond(@, AckResult)]
    /\ \E tok \in {t \in DOMAIN call : call[t].key = SmsLeg(id, 1)} :
       \E g \in {IF call[tok].pc = "running"
                 THEN Returned(Settled(Gateway, tok, PrepFailure), tok)
                 ELSE Gateway} :
          SetGateway(StartOpenclawReply(g, nextId, SmsLeg(id, 2)))
    /\ nextId' = nextId + 1
    /\ UNCHANGED <<pending, latestByCall, now, lastCreated, lastCall>>
    /\ UNCHANGED <<confVars, histVars, reqVars, drain, rl, http>>

\* sms.mjs:52-60, :118-151 with http-server.mjs:267-272  the fast-path timer
\* fires: withTimeout rejects and clears only its timer, the handler
\* acknowledges, and the continuation asks the gateway again.
SmsTimer(id) ==
    /\ MapHas(sms, id) /\ sms[id].pc = "racing"
    /\ sms' = [sms EXCEPT ![id] = Respond(@, AckResult)]
    /\ SetGateway(StartOpenclawReply(Gateway, nextId, SmsLeg(id, 2)))
    /\ nextId' = nextId + 1
    /\ UNCHANGED <<pending, latestByCall, now, lastCreated, lastCall>>
    /\ UNCHANGED <<confVars, histVars, reqVars, drain, rl, http>>

\* agent.mjs:169-203 with sms.mjs:110-145  the backend invocation of a
\* message's call settles and openclawReply leaves through its finally
\* block.  The fast path returns the reply inline, or acknowledges after a
\* rejection, and then the continuation asks the gateway again; a call that
\* lost the race is awaited by nobody; the continuation's call ends it.
SmsCallSettles(tok, result) ==
    /\ MapHas(call, tok) /\ call[tok].pc = "running"
    /\ call[tok].key \in SmsLegs
    /\ result \in BackendResults
    /\ \E id \in {call[tok].key.sms} :
       \E o \in {SmsOutcome(result)} :
       \E g \in {Returned(Settled(Gateway, tok, result), tok)} :
       \E done \in {[g EXCEPT !.call[tok].pc = "done"]} :
          IF call[tok].key.leg = 2
          THEN /\ sms' = [sms EXCEPT ![id].second = SettledWith(o),
                                     ![id].cont = IF AsyncReply(o).threw
                                                  THEN "rejected" ELSE "resolved"]
               /\ SetGateway(done)
               /\ UNCHANGED nextId
          ELSE IF sms[id].pc = "returned"
          THEN /\ sms' = [sms EXCEPT ![id].first = SettledWith(o)]
               /\ SetGateway(done)
               /\ UNCHANGED nextId
          ELSE IF o.ok
          THEN /\ sms' = [sms EXCEPT ![id] =
                             Respond([@ EXCEPT !.first = SettledWith(o)],
                                     FastResult(o.reply))]
               /\ SetGateway(done)
               /\ UNCHANGED nextId
          ELSE /\ sms' = [sms EXCEPT ![id] =
                             Respond([@ EXCEPT !.first = SettledWith(o)], AckResult)]
               /\ SetGateway(StartOpenclawReply(done, nextId, SmsLeg(id, 2)))
               /\ nextId' = nextId + 1
    /\ UNCHANGED <<pending, latestByCall, now, lastCreated, lastCall>>
    /\ UNCHANGED <<confVars, histVars, reqVars, drain, rl, http>>

\* The backend outcomes followed here: an error or an empty reply (the
\* texts of the replies play no part in the slots).
AbandonResults == {r \in BackendResults : r.reply = <<>>}

\* The /speech task of a voice call is resumed.
VoiceTaskSettles(id) ==
    /\ MapHas(call, id) /\ call[id].key \in Keys
    /\ TaskSettles(id)
    /\ call'[id].result \in AbandonResults

AbandonNext ==
    \/ Speech(FALSE, TRUE, "+15550001111", "CA1", <<"h", "i">>)
    \/ Tick
    \/ CleanupTimer
    \/ \E id \in DOMAIN call : VoiceTaskSettles(id)
    \/ GatewaySms({<<"+", "1">>}, <<"+", "1">>)
    \/ \E id \in 1..MaxSms : SmsTimer(id)
    \/ \E tok \in DOMAIN call, r \in AbandonResults :
          SmsCallSettles(tok, r)

\* The standalone server with OPENCLAW_MAX_CONCURRENT=1.
AbandonInit == InitWith({1}) /\ ~apiMode
AbandonSpec == AbandonInit /\ [][AbandonNext]_vars

\* A call that has not settled.
Unsettled(tok) == MapHas(call, tok) /\ call[tok].pc \in {"waiting", "running"}
\* Its voice turn is gone from the registry and another turn was created
\* for the call since.
Superseded(tok) ==
    /\ call[tok].key \in Keys
    /\ ~MapHas(pending, call[tok].key)
    /\ lastCreated[call[tok].key.callSid] # call[tok].key
\* Its voice turn, the last created for the call, was removed by the sweep.
Swept(tok) ==
    /\ call[tok].key \in Keys
    /\ ~MapHas(pending, call[tok].key)
    /\ lastCreated[call[tok].key.callSid] = call[tok].key
\* It is the fast-path call of a message whose handler has returned.
TimedOut(tok) ==
    /\ call[tok].key \in SmsLegs
    /\ call[tok].key.leg = 1
    /\ sms[call[tok].key.sms].pc = "returned"
\* Nobody wants the result of the call any more.
Unwanted(tok) == Superseded(tok) \/ Swept(tok) \/ TimedOut(tok)
Abandoned(tok) == Unsettled(tok) /\ Unwanted(tok)
\* The call settles in the step: it ends with a result of the backend.
SettlesNow(tok) ==
    /\ call[tok].pc = "running"
    /\ call'[tok].pc = "done"
    /\ call'[tok].result \in BackendResults

\* C31: a backend call whose result is no longer wanted (its voice turn was
\* superseded or swept, or its SMS fast-path timer fired) is not cancelled:
\* the step that abandons it leaves the call as it was; while it runs it
\* holds its slot, and it leaves the running state only by settling with a
\* result of the backend; with capacity 1 every call dispatched after it
\* waits, without a result, for as long as the abandoned call runs.
C31_NoCancellation ==
    /\ [](\A tok \in DOMAIN call :
            Abandoned(tok) /\ call[tok].pc = "running" =>
               /\ tok \in Holders
               /\ active >= 1
               /\ cap = 1 =>
                     \A later \in DOMAIN call :
                        later > tok =>
                           call[later].pc = "waiting" /\ call[later].result = None)
    /\ [][\A tok \in DOMAIN call :
             /\ MapHas(call', tok)
             /\ (Unsettled(tok) /\ ~Unwanted(tok) /\ Unwanted(tok)')
                   => \/ call'[tok] = call[tok] /\ active' >= active
                      \/ SettlesNow(tok)
             /\ (Abandoned(tok) /\ call[tok].pc = "running")
                   => \/ call'[tok] = call[tok] /\ active' >= 1
                      \/ SettlesNow(tok)
             /\ (Abandoned(tok) /\ call[tok].pc = "waiting")
                   => /\ call'[tok].pc \in {"waiting", "running"}
                      /\ call'[tok].result = None]_vars

\* With capacity 1: the call of a superseded turn runs, and behind it wait
\* the call of a swept turn, the fast-path call of a message whose timer
\* has fired, and that message's continuation.
C31_Witness ==
    /\ cap = 1
    /\ \E a, b, c, d \in DOMAIN call :
          /\ Abandoned(a) /\ Superseded(a) /\ call[a].pc = "running"
          /\ Abandoned(b) /\ Swept(b) /\ call[b].pc = "waiting"
          /\ Abandoned(c) /\ TimedOut(c) /\ call[c].pc = "waiting"
          /\ call[d].key = SmsLeg(call[c].key.sms, 2) /\ call[d].pc = "waiting"
          /\ a < b /\ b < c /\ c < d

====
